---- MODULE Spec2Model ----
(***************************************************************************)
(* Rate limiting, tier resolution and response caching of the FastAPI      *)
(* boilerplate (src/app/core/utils/rate_limit.py, src/app/api/             *)
(* dependencies.py, src/app/api/v1/rate_limits.py, src/app/api/v1/posts.py)*)
(*                                                                         *)
(* Strings that the code builds character by character (URL paths) are     *)
(* sequences of one-character strings; Join turns them into the string the *)
(* f-string of the code produces.                                          *)
(***************************************************************************)
EXTENDS Integers, Sequences, FiniteSets, TLC

VARIABLES
    now,        \* the clock: int(datetime.now(UTC).timestamp())
    rl_store,   \* the rate-limit Redis database: key -> [count, expireAt]
    verdicts,   \* history: for each (identity, path, limit, period, window)
                \* the results of the is_rate_limited calls, in call order
    ncalls,     \* history: number of is_rate_limited calls made so far
    rule,       \* concurrent calls: the (limit, period) every call is made with
    pc,         \* concurrent calls: where each call stands
    call,       \* concurrent calls: the locals of each call
    result,     \* concurrent calls: the value each call returned
    pathA,      \* path forms: one spelling of a request path
    pathB,      \* path forms: another spelling of a request path
    hits,       \* path forms: calls made per identity with each spelling
    users,      \* table "user": rows [id, username, email, tier_id,
                \* is_superuser, is_deleted]
    tiers,      \* table "tier": rows [id, name]
    seq,        \* the last id the autoincrement of "tier", "post" and "user" gave
    rate_limits,    \* table "rate_limit": rows [id, tier_id, path, limit, period, name]
    rate_limit_seq, \* the last id the autoincrement of "rate_limit" gave out
    resp,       \* the response to the latest request
    erased,     \* history: the (tier_id, path) whose rule was deleted and
                \* for which no rule was written since
    nheavy,     \* history: requests made by the user without a tier
    posts,      \* table "post": rows [id, created_by_user_id, text, is_deleted]
    cache,      \* the cache Redis database: key -> [value, expireAt]
    stored,     \* history: for each key ever stored, the response that was
                \* stored last, when, whether the key was invalidated since,
                \* and the same about the entry it replaced
    nreq,       \* history: number of requests made to the post endpoints
    token_blacklist,    \* table "token_blacklist": rows [token, expires_at]
    revoked,    \* history: the tokens a logout or erase_user that succeeded
                \* has blacklisted
    issued      \* history: the pairs <<access token, id of the user>> that
                \* POST /login has handed out

rlVars == <<now, rl_store, verdicts, ncalls>>

concVars == <<rule, pc, call, result>>

sanVars == <<pathA, pathB, hits>>

dbVars == <<users, tiers, seq, rate_limits, rate_limit_seq, resp, erased, nheavy>>

cacheVars == <<posts, cache, stored, nreq>>

authVars == <<token_blacklist, revoked, issued>>

\* what the limiter on its own never touches
appVars == <<dbVars, cacheVars, authVars>>

vars == <<rlVars, concVars, sanVars, dbVars, cacheVars, authVars>>

---------------------------------------------------------------------------
(* Bounds *)

MaxTime == 3
MaxCalls == 3
NumProcs == 3
MaxPathLen == 3
MaxRules == 2
MaxExtra == 1

---------------------------------------------------------------------------
(* Inputs *)

Periods == {2, 3}
Limits == {0, 1}

\* an identity is a user id (int) or the client address (str)
Identities == {[user |-> 1], [host |-> "10.0.0.1"]}

RawPaths == { <<"/", "u", "/">>, <<"u">>, <<"/", "p">> }

---------------------------------------------------------------------------
(* Strings *)

RECURSIVE Join(_)
Join(s) == IF s = <<>> THEN "" ELSE Head(s) \o Join(Tail(s))

\* str.format of the user_id argument: an int or a str
FmtId(user_id) ==
    IF "user" \in DOMAIN user_id THEN ToString(user_id.user) ELSE user_id.host

---------------------------------------------------------------------------
(* sanitize_path: path.strip("/").replace("/", "_") *)

RECURSIVE lstrip(_)
lstrip(s) == IF s # <<>> /\ Head(s) = "/" THEN lstrip(Tail(s)) ELSE s

RECURSIVE rstrip(_)
rstrip(s) ==
    IF s # <<>> /\ s[Len(s)] = "/" THEN rstrip(SubSeq(s, 1, Len(s) - 1)) ELSE s

\* a mistaken strip: at most one "/" is removed at each end
stripOne(s) ==
    LET l == IF s # <<>> /\ Head(s) = "/" THEN Tail(s) ELSE s
    IN IF l # <<>> /\ l[Len(l)] = "/" THEN SubSeq(l, 1, Len(l) - 1) ELSE l

strip(s) == rstrip(lstrip(s))

replace(s) == [n \in 1..Len(s) |-> IF s[n] = "/" THEN "_" ELSE s[n]]

sanitize_path(path) == replace(strip(path))

---------------------------------------------------------------------------
(* The Redis commands the limiter uses *)

NoExpiry == -1

\* INCR: a missing key counts from 0 and has no expiry
redis_incr(store, key) ==
    IF key \in DOMAIN store
    THEN [store EXCEPT ![key].count = @ + 1]
    ELSE store @@ (key :> [count |-> 1, expireAt |-> NoExpiry])

\* EXPIRE key seconds, issued at time t
redis_expire(store, key, seconds, t) ==
    IF key \notin DOMAIN store THEN store
    ELSE IF seconds <= 0 THEN [k \in DOMAIN store \ {key} |-> store[k]]
    ELSE [store EXCEPT ![key].expireAt = t + seconds]

\* the keys Redis still holds at time t
redis_live(store, t) ==
    LET keep == {k \in DOMAIN store :
                    store[k].expireAt = NoExpiry \/ t < store[k].expireAt}
    IN [k \in keep |-> store[k]]

---------------------------------------------------------------------------
(* is_rate_limited *)

WindowStartFixed(current_timestamp, period) == 0

WindowStart(current_timestamp, period) ==
    current_timestamp - (current_timestamp % period)

\* a mistaken key that leaves the identity out
RateLimitKeyNoIdentity(user_id, path, window_start) ==
    "ratelimit:" \o Join(sanitize_path(path)) \o ":" \o ToString(window_start)

RateLimitKey(user_id, path, window_start) ==
    "ratelimit:" \o FmtId(user_id) \o ":" \o Join(sanitize_path(path))
        \o ":" \o ToString(window_start)

ExceedsOrEqual(current_count, limit) == current_count >= limit

Exceeds(current_count, limit) == current_count > limit

\* a mistaken limiter: every call sends EXPIRE
is_rate_limited_always_expire(store, t, user_id, path, limit, period) ==
    LET key == RateLimitKey(user_id, path, WindowStart(t, period))
        s1 == redis_incr(store, key)
        current_count == s1[key].count
        s2 == redis_expire(s1, key, period, t)
    IN [store |-> s2, limited |-> Exceeds(current_count, limit)]

\* a mistaken limiter: the key lives one second less than the period
is_rate_limited_short_expiry(store, t, user_id, path, limit, period) ==
    LET key == RateLimitKey(user_id, path, WindowStart(t, period))
        s1 == redis_incr(store, key)
        current_count == s1[key].count
        s2 == IF current_count = 1 THEN redis_expire(s1, key, period - 1, t) ELSE s1
    IN [store |-> s2, limited |-> Exceeds(current_count, limit)]

\* the store after the call and the value returned
is_rate_limited(store, t, user_id, path, limit, period) ==
    LET key == RateLimitKey(user_id, path, WindowStart(t, period))
        s1 == redis_incr(store, key)
        current_count == s1[key].count
        s2 == IF current_count = 1 THEN redis_expire(s1, key, period, t) ELSE s1
    IN [store |-> s2, limited |-> Exceeds(current_count, limit)]

---------------------------------------------------------------------------
(* History *)

\* the calls of one rule on one counter partition in one window
Class(user_id, path, limit, period, t) ==
    <<FmtId(user_id), Join(sanitize_path(path)), limit, period, t \div period>>

Record(hist, class, v) ==
    IF class \in DOMAIN hist
    THEN [hist EXCEPT ![class] = Append(@, v)]
    ELSE hist @@ (class :> <<v>>)

---------------------------------------------------------------------------
(* Sequential calls of is_rate_limited *)

InitLimiter ==
    /\ now = 0
    /\ rl_store = << >>
    /\ verdicts = << >>
    /\ ncalls = 0

Procs == 1..NumProcs

NoCall == [user_id |-> [user |-> 0], key |-> "", ts |-> 0, current_count |-> 0]

InitCalls ==
    /\ pc = [p \in Procs |-> "start"]
    /\ call = [p \in Procs |-> NoCall]
    /\ result = [p \in Procs |-> "none"]

InitPaths ==
    /\ pathA = << >>
    /\ pathB = << >>
    /\ hits = [i \in Identities |-> [a |-> 0, b |-> 0]]

NoTier == 0

\* the None that get_optional_user returns for an anonymous request
NoUser == [id |-> 0, username |-> <<>>, email |-> <<>>, tier_id |-> NoTier,
           is_superuser |-> FALSE, is_deleted |-> FALSE]

alice == <<"a", "l", "i", "c", "e">>
bob == <<"b", "o", "b">>

alice_mail == <<"a", "@", "x">>
bob_mail == <<"b", "@", "x">>

\* bcrypt: the hash of a password, and whether a password has a given hash
get_password_hash(password) == <<"bcrypt", password>>

verify_password(plain_password, hashed_password) ==
    hashed_password = get_password_hash(plain_password)

InitUsers == {[id |-> 1, username |-> alice, email |-> alice_mail,
               hashed_password |-> get_password_hash("pa"),
               tier_id |-> NoTier, is_superuser |-> FALSE, is_deleted |-> FALSE],
              [id |-> 2, username |-> bob, email |-> bob_mail,
               hashed_password |-> get_password_hash("pb"),
               tier_id |-> 1, is_superuser |-> TRUE, is_deleted |-> FALSE]}

\* the text of a post, character by character
TextX == <<"x">>
TextY == <<"y">>

InitPosts == {[id |-> 1, created_by_user_id |-> 1, text |-> TextX, is_deleted |-> FALSE],
              [id |-> 2, created_by_user_id |-> 2, text |-> TextX, is_deleted |-> FALSE]}

InitCache ==
    /\ posts = InitPosts
    /\ cache = <<>>
    /\ stored = <<>>
    /\ nreq = 0
    /\ token_blacklist = {}
    /\ revoked = {}
    /\ issued = {}

InitTiers == {[id |-> 1, name |-> "free"]}

InitSeq == [tier |-> 1, post |-> 2, user |-> 2]

InitDb ==
    /\ users = InitUsers
    /\ tiers = InitTiers
    /\ seq = InitSeq
    /\ rate_limits = {}
    /\ rate_limit_seq = 0
    /\ resp = [op |-> "none"]
    /\ erased = {}
    /\ nheavy = 0
    /\ InitCache

Init ==
    /\ InitLimiter
    /\ rule = [limit |-> 0, period |-> 1]
    /\ InitCalls
    /\ InitPaths
    /\ InitDb

IsRateLimited(user_id, path, limit, period) ==
    LET r == is_rate_limited(rl_store, now, user_id, path, limit, period)
    IN /\ ncalls < MaxCalls
       /\ rl_store' = r.store
       /\ verdicts' = Record(verdicts, Class(user_id, path, limit, period, now),
                             r.limited)
       /\ ncalls' = ncalls + 1
       /\ now' = now
       /\ UNCHANGED <<concVars, sanVars, appVars>>

Tick ==
    /\ now < MaxTime
    /\ now' = now + 1
    /\ rl_store' = redis_live(rl_store, now + 1)
    /\ UNCHANGED <<verdicts, ncalls>>
    /\ UNCHANGED <<concVars, sanVars, appVars>>

Next ==
    \/ \E i \in Identities, p \in RawPaths, l \in Limits, t \in Periods :
          IsRateLimited(i, p, l, t)
    \/ Tick

Spec == Init /\ [][Next]_vars

---------------------------------------------------------------------------
(* Properties of the sequential limiter *)

\* every call made so far for the counter partition of class c used c's rule
SingleRule(c) ==
    \A d \in DOMAIN verdicts :
        (d[1] = c[1] /\ d[2] = c[2]) => (d[3] = c[3] /\ d[4] = c[4])

C1_WitnessZero ==
    \E c \in DOMAIN verdicts :
        SingleRule(c) /\ c[3] = 0 /\ verdicts[c] = <<TRUE, TRUE>>

PrevWindow(c) == <<c[1], c[2], c[3], c[4], c[5] - 1>>

---------------------------------------------------------------------------
(* Concurrent calls of is_rate_limited.  A call computes its key and sends *)
(* INCR without suspending (lines 41-48); it may be suspended while it     *)
(* awaits EXPIRE (line 50) and before it compares and returns (52-59).     *)

ConcPath == <<"/", "u">>

InitConc ==
    /\ InitLimiter
    /\ rule \in [limit : Limits, period : Periods]
    /\ InitCalls
    /\ InitPaths
    /\ InitDb

\* calls are numbered in the order in which they start
Earlier(p) == \A q \in Procs : q < p => pc[q] # "start"

\* a mistaken increment: GET, then SET of the value read plus one
IncrReadThenWrite(p) ==
    \/ /\ pc[p] = "start"
       /\ Earlier(p)
       /\ \E i \in Identities :
            LET key == RateLimitKey(i, ConcPath, WindowStart(now, rule.period))
            IN call' = [call EXCEPT ![p] =
                          [user_id |-> i, key |-> key, ts |-> now,
                           current_count |-> IF key \in DOMAIN rl_store
                                             THEN rl_store[key].count ELSE 0]]
       /\ pc' = [pc EXCEPT ![p] = "write"]
       /\ UNCHANGED <<rlVars, rule, result, sanVars, appVars>>
    \/ /\ pc[p] = "write"
       /\ rl_store' =
            IF call[p].key \in DOMAIN rl_store
            THEN [rl_store EXCEPT ![call[p].key].count = call[p].current_count + 1]
            ELSE rl_store @@ (call[p].key :>
                    [count |-> call[p].current_count + 1, expireAt |-> NoExpiry])
       /\ call' = [call EXCEPT ![p].current_count = @ + 1]
       /\ pc' = [pc EXCEPT ![p] =
                    IF call[p].current_count + 1 = 1 THEN "expire" ELSE "compare"]
       /\ UNCHANGED <<now, verdicts, ncalls, rule, result, sanVars, appVars>>

\* lines 41-49: the clock, the key and the atomic INCR
Incr(p) ==
    /\ pc[p] = "start"
    /\ Earlier(p)
    /\ \E i \in Identities :
         LET key == RateLimitKey(i, ConcPath, WindowStart(now, rule.period))
             s1 == redis_incr(rl_store, key)
         IN /\ rl_store' = s1
            /\ call' = [call EXCEPT ![p] =
                          [user_id |-> i, key |-> key, ts |-> now,
                           current_count |-> s1[key].count]]
            /\ pc' = [pc EXCEPT ![p] =
                         IF s1[key].count = 1 THEN "expire" ELSE "compare"]
    /\ UNCHANGED <<now, verdicts, ncalls, rule, result, sanVars, appVars>>

\* line 50: EXPIRE, sent by the call that read 1
Expire(p) ==
    /\ pc[p] = "expire"
    /\ rl_store' = redis_expire(rl_store, call[p].key, rule.period, now)
    /\ pc' = [pc EXCEPT ![p] = "compare"]
    /\ UNCHANGED <<now, verdicts, ncalls, rule, call, result, sanVars, appVars>>

\* lines 52-59: the comparison and the return
Compare(p) ==
    /\ pc[p] = "compare"
    /\ result' = [result EXCEPT ![p] = Exceeds(call[p].current_count, rule.limit)]
    /\ pc' = [pc EXCEPT ![p] = "done"]
    /\ UNCHANGED <<rlVars, rule, call, sanVars, appVars>>

NextConc ==
    \/ \E p \in Procs : Incr(p)
    \/ \E p \in Procs : Expire(p)
    \/ \E p \in Procs : Compare(p)
    \/ Tick

SpecConc == InitConc /\ [][NextConc]_vars

Min(a, b) == IF a <= b THEN a ELSE b

\* the calls that have incremented for identity i in window k
CallsOf(i, k) ==
    {p \in Procs : /\ pc[p] # "start"
                   /\ call[p].user_id = i
                   /\ call[p].ts \div rule.period = k}

\* C3: of n concurrent calls for one identity, path, limit L and window,
\* once all have returned exactly min(n, L) returned False and the others
\* True; at every moment the calls that have incremented hold n distinct
\* post-increment values 1..n (no increment is lost, none is seen twice).
C3_Serialized ==
    \A i \in Identities, k \in 0..(now \div rule.period) :
        LET S == CallsOf(i, k)
            n == Cardinality(S)
        IN /\ {call[p].current_count : p \in S} = 1..n
           /\ (\A p \in S : pc[p] = "done") =>
                 /\ Cardinality({p \in S : result[p] = FALSE}) = Min(n, rule.limit)
                 /\ Cardinality({p \in S : result[p] = TRUE})
                       = n - Min(n, rule.limit)

\* three calls of one identity in one window under limit 1 have all
\* returned, and the one that armed the expiry was not the first to return
C3_Witness ==
    \E i \in Identities :
        /\ rule.limit = 1
        /\ Cardinality(CallsOf(i, 0)) = NumProcs
        /\ \A p \in Procs : pc[p] = "done"
        /\ \E p, q \in Procs : /\ call[p].current_count = 1
                               /\ call[q].current_count > 1
                               /\ result[p] = FALSE /\ result[q] = TRUE

---------------------------------------------------------------------------
(* Spellings of one path: requests whose paths differ in leading and       *)
(* trailing "/" only                                                       *)

PathChars == {"/", "u"}

AllPaths == UNION {[1..n -> PathChars] : n \in 0..MaxPathLen}

UsersPaths == { <<"/", "u", "s", "e", "r", "s", "/">>,
                <<"u", "s", "e", "r", "s">>,
                <<"/", "u", "s", "e", "r", "s">> }

InitSan ==
    /\ now \in 0..MaxTime
    /\ rl_store = << >>
    /\ verdicts = << >>
    /\ ncalls = 0
    /\ rule \in [limit : {1}, period : Periods]
    /\ InitCalls
    /\ \/ pathA \in AllPaths /\ pathB \in AllPaths
       \/ pathA \in UsersPaths /\ pathB \in UsersPaths
    /\ hits = [i \in Identities |-> [a |-> 0, b |-> 0]]
    /\ InitDb

RequestA(user_id) ==
    LET r == is_rate_limited(rl_store, now, user_id, pathA, rule.limit, rule.period)
    IN /\ ncalls < MaxCalls
       /\ rl_store' = r.store
       /\ hits' = [hits EXCEPT ![user_id].a = @ + 1]
       /\ ncalls' = ncalls + 1
       /\ UNCHANGED <<now, verdicts, concVars, pathA, pathB, appVars>>

RequestB(user_id) ==
    LET r == is_rate_limited(rl_store, now, user_id, pathB, rule.limit, rule.period)
    IN /\ ncalls < MaxCalls
       /\ rl_store' = r.store
       /\ hits' = [hits EXCEPT ![user_id].b = @ + 1]
       /\ ncalls' = ncalls + 1
       /\ UNCHANGED <<now, verdicts, concVars, pathA, pathB, appVars>>

NextSan ==
    \/ \E i \in Identities : RequestA(i)
    \/ \E i \in Identities : RequestB(i)

SpecSan == InitSan /\ [][NextSan]_vars

AllSlashes(s) == \A n \in 1..Len(s) : s[n] = "/"

\* p and q are one string c between runs of "/" of any lengths
SlashVariants(p, q) ==
    \E a \in 0..Len(p), b \in 0..Len(p), c \in 0..Len(q), d \in 0..Len(q) :
        /\ a + b <= Len(p) /\ c + d <= Len(q)
        /\ AllSlashes(SubSeq(p, 1, a))
        /\ AllSlashes(SubSeq(p, Len(p) - b + 1, Len(p)))
        /\ AllSlashes(SubSeq(q, 1, c))
        /\ AllSlashes(SubSeq(q, Len(q) - d + 1, Len(q)))
        /\ SubSeq(p, a + 1, Len(p) - b) = SubSeq(q, c + 1, Len(q) - d)

\* C4: two paths that differ only in leading or trailing "/" characters
\* sanitize to the same string ("/users/", "users", "/users" to "users"),
\* and the requests one identity makes to either of them in a window are
\* counted on one key, ratelimit:{identity}:{sanitized_path}:{window_start}.
C4_OnePartition ==
    SlashVariants(pathA, pathB) =>
        /\ sanitize_path(pathA) = sanitize_path(pathB)
        /\ pathA \in UsersPaths => sanitize_path(pathB) = <<"u", "s", "e", "r", "s">>
        /\ \A i \in Identities :
              LET key == "ratelimit:" \o FmtId(i) \o ":"
                            \o Join(sanitize_path(pathB)) \o ":"
                            \o ToString(now - (now % rule.period))
              IN (hits[i].a + hits[i].b > 0) =>
                    /\ key \in DOMAIN rl_store
                    /\ rl_store[key].count = hits[i].a + hits[i].b
        /\ Cardinality(DOMAIN rl_store)
              = Cardinality({i \in Identities : hits[i].a + hits[i].b > 0})

\* one identity has requested "//u" and "u/" (two spellings with more than
\* one "/" to strip) and both requests were counted on one key
C4_Witness ==
    /\ pathA = <<"/", "/", "u">>
    /\ pathB = <<"u", "/">>
    /\ \E i \in Identities : hits[i].a >= 1 /\ hits[i].b >= 1
    /\ Cardinality(DOMAIN rl_store) = 1

\* the three spellings of the path "users"
C4_WitnessUsers ==
    /\ pathA = <<"/", "u", "s", "e", "r", "s", "/">>
    /\ pathB = <<"u", "s", "e", "r", "s">>
    /\ \E i \in Identities : hits[i].a >= 1 /\ hits[i].b >= 1

---------------------------------------------------------------------------
(* Tier resolution: rate_limiter and the rules it reads *)

DEFAULT_LIMIT == 10
DEFAULT_PERIOD == 3600

ClientHost == "10.0.0.1"

\* request.url.path of the rate-limited requests
RequestPaths == { <<"/", "u">>, <<"/", "u", "/">> }

\* bodies of POST /tier/{tier_name}/rate_limit
RulePaths == { <<"/", "u", "/">>, <<"p">> }
RuleLimits == {1, 2}
RulePeriods == {2}
RuleNames == {"a", "b"}
TierNames == {"free", "gold"}

\* a mistaken lookup: the rule is searched under the path as requested
rate_limit_policies_raw_path(user, host, url_path) ==
    LET path == sanitize_path(url_path)
        tier == {t \in tiers : t.id = user.tier_id}
        found == {r \in rate_limits :
                     (\E t \in tier : r.tier_id = t.id) /\ r.path = url_path}
    IN IF user # NoUser
       THEN IF tier # {} /\ found # {}
            THEN {[user_id |-> [user |-> user.id], path |-> path,
                   limit |-> r.limit, period |-> r.period] : r \in found}
            ELSE {[user_id |-> [user |-> user.id], path |-> path,
                   limit |-> DEFAULT_LIMIT, period |-> DEFAULT_PERIOD]}
       ELSE {[user_id |-> [host |-> host], path |-> path,
              limit |-> DEFAULT_LIMIT, period |-> DEFAULT_PERIOD]}

\* rate_limiter, lines 138-157: the arguments it may pass to is_rate_limited.
\* crud_rate_limits.get returns the first row that matches, in an order the
\* query does not fix: any matching row.
rate_limit_policies(user, host, url_path) ==
    LET path == sanitize_path(url_path)
        tier == {t \in tiers : t.id = user.tier_id}
        found == {r \in rate_limits :
                     (\E t \in tier : r.tier_id = t.id) /\ r.path = path}
    IN IF user # NoUser
       THEN IF tier # {} /\ found # {}
            THEN {[user_id |-> [user |-> user.id], path |-> path,
                   limit |-> r.limit, period |-> r.period] : r \in found}
            ELSE {[user_id |-> [user |-> user.id], path |-> path,
                   limit |-> DEFAULT_LIMIT, period |-> DEFAULT_PERIOD]}
       ELSE {[user_id |-> [host |-> host], path |-> path,
              limit |-> DEFAULT_LIMIT, period |-> DEFAULT_PERIOD]}

\* rate_limiter for a request of user (NoUser: anonymous) from host
RateLimiter(user, host, url_path) ==
    \E pol \in rate_limit_policies(user, host, url_path) :
        LET r == is_rate_limited(rl_store, now, pol.user_id, pol.path,
                                 pol.limit, pol.period)
        IN /\ rl_store' = r.store
           /\ verdicts' = Record(verdicts,
                  Class(pol.user_id, pol.path, pol.limit, pol.period, now),
                  r.limited)
           /\ resp' = [op |-> "rate_limiter", user |-> user.id,
                       path |-> url_path, user_id |-> pol.user_id,
                       limit |-> pol.limit, period |-> pol.period,
                       status |-> IF r.limited THEN "RateLimitException"
                                  ELSE "passed"]
           /\ UNCHANGED <<now, users, tiers, seq, rate_limits, rate_limit_seq, erased>>
           /\ UNCHANGED <<concVars, sanVars, cacheVars, authVars>>

validate_and_sanitize_path_unchanged(v) == v

\* the validator of the field path in RateLimitBase and RateLimitUpdate
validate_and_sanitize_path(v) == sanitize_path(v)

\* POST /tier/{tier_name}/rate_limit
write_rate_limit(tier_name, rate_limit) ==
    LET db_tier == {t \in tiers : t.name = tier_name}
        path == validate_and_sanitize_path(rate_limit.path)
    IN /\ rate_limit_seq < MaxRules
       /\ IF db_tier = {}
          THEN /\ resp' = [op |-> "write_rate_limit", status |-> "NotFound"]
               /\ UNCHANGED <<rate_limits, rate_limit_seq, erased>>
          ELSE IF \E r \in rate_limits : r.name = rate_limit.name
          THEN /\ resp' = [op |-> "write_rate_limit", status |-> "DuplicateValue"]
               /\ UNCHANGED <<rate_limits, rate_limit_seq, erased>>
          ELSE \E t \in db_tier :
               /\ rate_limits' = rate_limits \cup
                     {[id |-> rate_limit_seq + 1, tier_id |-> t.id, path |-> path,
                       limit |-> rate_limit.limit, period |-> rate_limit.period,
                       name |-> rate_limit.name]}
               /\ rate_limit_seq' = rate_limit_seq + 1
               /\ erased' = erased \ {<<t.id, path>>}
               /\ resp' = [op |-> "write_rate_limit", status |-> "created"]
       /\ UNCHANGED <<rlVars, concVars, sanVars, cacheVars, authVars,
                      users, tiers, seq, nheavy>>

\* DELETE /tier/{tier_name}/rate_limit/{id}
erase_rate_limit(tier_name, id) ==
    LET db_tier == {t \in tiers : t.name = tier_name}
        db_rate_limit == {r \in rate_limits :
                             (\E t \in db_tier : r.tier_id = t.id) /\ r.id = id}
    IN /\ IF db_tier = {}
          THEN /\ resp' = [op |-> "erase_rate_limit", status |-> "NotFound"]
               /\ UNCHANGED <<rate_limits, erased>>
          ELSE IF db_rate_limit = {}
          THEN /\ resp' = [op |-> "erase_rate_limit", status |-> "NotFound"]
               /\ UNCHANGED <<rate_limits, erased>>
          ELSE /\ rate_limits' = {r \in rate_limits : r.id # id}
               /\ erased' = erased \cup {<<r.tier_id, r.path>> : r \in db_rate_limit}
               /\ resp' = [op |-> "erase_rate_limit", status |-> "deleted"]
       /\ UNCHANGED <<rlVars, concVars, sanVars, cacheVars, authVars, users, tiers, seq,
                      rate_limit_seq, nheavy>>

RuleBodies ==
    [path : RulePaths, limit : RuleLimits, period : RulePeriods, name : RuleNames]

\* a request behind rate_limiter, by a user or anonymous
Request(user, url_path) ==
    /\ ncalls < MaxCalls
    /\ ncalls' = ncalls + 1
    /\ nheavy' = nheavy
    /\ RateLimiter(user, ClientHost, url_path)

NextTier ==
    \/ \E n \in TierNames, b \in RuleBodies : write_rate_limit(n, b)
    \/ \E n \in TierNames, id \in 1..MaxRules : erase_rate_limit(n, id)
    \/ \E u \in users \cup {NoUser}, p \in RequestPaths : Request(u, p)

SpecTier == Init /\ [][NextTier]_vars

---------------------------------------------------------------------------
(* Requests under every table of rules the administrators can have left *)

NoRule == [name |-> "none"]

\* the tables write_rate_limit and erase_rate_limit can leave: ids are never
\* given twice and names are unique; the path of two rows may be the same
RuleTables ==
    LET slots == [1..MaxRules -> RuleBodies \cup {NoRule}]
        ok(f) == \A i, j \in 1..MaxRules :
                    (i # j /\ f[i] # NoRule /\ f[j] # NoRule) => f[i].name # f[j].name
    IN {{[id |-> i, tier_id |-> 1, path |-> sanitize_path(f[i].path),
          limit |-> f[i].limit, period |-> f[i].period, name |-> f[i].name]
            : i \in {j \in 1..MaxRules : f[j] # NoRule}} : f \in {g \in slots : ok(g)}}

InitPolicy ==
    /\ InitLimiter
    /\ rule = [limit |-> 0, period |-> 1]
    /\ InitCalls
    /\ InitPaths
    /\ users = InitUsers
    /\ tiers = InitTiers
    /\ seq = InitSeq
    /\ rate_limits \in RuleTables
    /\ rate_limit_seq = MaxRules
    /\ resp = [op |-> "none"]
    /\ erased = {}
    /\ nheavy = 0
    /\ InitCache

\* the user without a tier may go past the default limit; the other
\* identities make MaxCalls requests between them
RequestPolicy(user, url_path) ==
    /\ IF user.id = 1
       THEN /\ nheavy < DEFAULT_LIMIT + MaxExtra
            /\ nheavy' = nheavy + 1
            /\ ncalls' = ncalls
       ELSE /\ ncalls < MaxCalls
            /\ ncalls' = ncalls + 1
            /\ nheavy' = nheavy
    /\ RateLimiter(user, ClientHost, url_path)

NextPolicy ==
    \E u \in users \cup {NoUser}, p \in RequestPaths : RequestPolicy(u, p)

SpecPolicy == InitPolicy /\ [][NextPolicy]_vars

\* the rules of the tier of user id u for the request path p
RulesFor(u, p) ==
    {r \in rate_limits :
        /\ \E usr \in users, t \in tiers :
              usr.id = u /\ usr.tier_id = t.id /\ r.tier_id = t.id
        /\ r.path = sanitize_path(p)}

\* C5: rate_limiter counts an anonymous request under the client address
\* with the default (10, 3600); a user without a tier, or whose tier has no
\* rule for the sanitized path, under the user id with the default; a user
\* whose tier has a rule for the path under the user id with a rule's
\* (limit, period).  A user without a tier is refused on request 11 of a
\* window to one path and on none of the first 10.
C5_PolicySelection ==
    /\ resp.op = "rate_limiter" =>
          /\ resp.user = 0 =>
                /\ resp.user_id = [host |-> ClientHost]
                /\ resp.limit = 10 /\ resp.period = 3600
          /\ (resp.user # 0 /\ RulesFor(resp.user, resp.path) = {}) =>
                /\ resp.user_id = [user |-> resp.user]
                /\ resp.limit = 10 /\ resp.period = 3600
          /\ (resp.user # 0 /\ RulesFor(resp.user, resp.path) # {}) =>
                /\ resp.user_id = [user |-> resp.user]
                /\ \E r \in RulesFor(resp.user, resp.path) :
                      resp.limit = r.limit /\ resp.period = r.period
    /\ \A c \in DOMAIN verdicts :
          (c[1] = "1") =>
              /\ c[3] = 10 /\ c[4] = 3600
              /\ \A n \in 1..Len(verdicts[c]) : verdicts[c][n] = (n > 10)

\* the user without a tier has just been refused, on the 11th request
C5_Witness ==
    /\ resp.op = "rate_limiter"
    /\ resp.user = 1
    /\ resp.status = "RateLimitException"
    /\ \E c \in DOMAIN verdicts : c[1] = "1" /\ Len(verdicts[c]) = 11
    /\ rate_limits # {}

\* a user whose tier has two rules for the path was counted under one of them
C5_WitnessRule ==
    /\ resp.op = "rate_limiter"
    /\ resp.user = 2
    /\ Cardinality(RulesFor(2, resp.path)) = 2
    /\ resp.limit = 2

---------------------------------------------------------------------------
(* Rules deleted while requests go on *)

\* C6: once erase_rate_limit has deleted the rule of tier X and path P (and
\* no rule for X and P was written afterwards), every rate_limiter call of a
\* user of tier X on path P uses the default (limit, period).
C6_DefaultAfterErase ==
    (/\ resp.op = "rate_limiter"
     /\ \E u \in users :
           u.id = resp.user /\ <<u.tier_id, sanitize_path(resp.path)>> \in erased)
        => (resp.limit = DEFAULT_LIMIT /\ resp.period = DEFAULT_PERIOD)

\* what does hold: the rule a call used is a row of the table at that
\* moment, so a deleted row is never used again
C6_NoStaleRule ==
    (resp.op = "rate_limiter" /\ resp.user # 0) =>
        \/ resp.limit = DEFAULT_LIMIT /\ resp.period = DEFAULT_PERIOD
        \/ \E r \in RulesFor(resp.user, resp.path) :
              resp.limit = r.limit /\ resp.period = r.period

---------------------------------------------------------------------------
(* Response cache: the posts endpoints behind @cache.  The decorator       *)
(* itself (app/core/utils/cache.py) is modelled after its description:     *)
(* key templating, read-through on GET, invalidation after a successful    *)
(* PATCH or DELETE.  Keys are sequences of characters, so that a pattern   *)
(* is matched the way Redis matches it.                                    *)

MaxRequests == 3
MaxCacheTicks == 2

\* seconds the clock advances between two requests
TickSteps == {30}

Usernames == {alice, bob}
PostIds == {1, 2}
Pages == {1, 2}
PageSizes == {10}
PostUpdates == {[text |-> TextY]}

Digit == <<"0", "1", "2", "3", "4", "5", "6", "7", "8", "9">>

RECURSIVE str(_)
\* str(n) of a non-negative integer, character by character
str(n) == IF n < 10 THEN <<Digit[n + 1]>>
          ELSE str(n \div 10) \o <<Digit[(n % 10) + 1]>>

\* int(s), the inverse of str
int(s) == CHOOSE n \in 0..99 : str(n) = s

RECURSIVE format(_, _)
\* template.format(**kwargs): a template is a sequence of characters and
\* placeholders
format(template, kwargs) ==
    IF template = <<>> THEN <<>>
    ELSE (IF Head(template) \in DOMAIN kwargs THEN kwargs[Head(template)]
          ELSE <<Head(template)>>) \o format(Tail(template), kwargs)

\* the key of a resource: formatted prefix, a colon, the resource id
cache_key(key_prefix, resource_id, kwargs) ==
    format(key_prefix, kwargs) \o <<":">> \o resource_id

RECURSIVE glob(_, _)
\* Redis glob matching; "*" is the only special character the patterns use
glob(pattern, key) ==
    IF pattern = <<>> THEN key = <<>>
    ELSE IF Head(pattern) = "*"
         THEN glob(Tail(pattern), key) \/ (key # <<>> /\ glob(pattern, Tail(key)))
         ELSE key # <<>> /\ Head(key) = Head(pattern) /\ glob(Tail(pattern), Tail(key))

\* SET key value, then EXPIRE key seconds, at time t
redis_set(store, key, value, seconds, t) ==
    redis_expire([k \in DOMAIN store \cup {key} |->
                     IF k = key THEN [value |-> value, expireAt |-> NoExpiry]
                     ELSE store[k]], key, seconds, t)

\* DEL of a set of keys: an absent key is not an error
redis_delete(store, keys) == [k \in DOMAIN store \ keys |-> store[k]]

\* the keys a pattern matches
redis_scan(store, pattern) == {k \in DOMAIN store : glob(pattern, k)}

\* the JSON text of a post: numbers in decimal, strings between quotes
json_dumps_post(p) ==
    [id |-> str(p.id), text |-> <<"\"">> \o p.text \o <<"\"">>,
     created_by_user_id |-> str(p.created_by_user_id)]

json_loads_post(j) ==
    [id |-> int(j.id), text |-> SubSeq(j.text, 2, Len(j.text) - 1),
     created_by_user_id |-> int(j.created_by_user_id)]

\* the JSON text of a response body: a post or a page of posts
json_dumps(body) ==
    IF "data" \in DOMAIN body
    THEN [data |-> [n \in 1..Len(body.data) |-> json_dumps_post(body.data[n])],
          total_count |-> str(body.total_count),
          has_more |-> IF body.has_more THEN "true" ELSE "false",
          page |-> str(body.page), items_per_page |-> str(body.items_per_page)]
    ELSE json_dumps_post(body)

json_loads(j) ==
    IF "data" \in DOMAIN j
    THEN [data |-> [n \in 1..Len(j.data) |-> json_loads_post(j.data[n])],
          total_count |-> int(j.total_count),
          has_more |-> (j.has_more = "true"),
          page |-> int(j.page), items_per_page |-> int(j.items_per_page)]
    ELSE json_loads_post(j)

\* expiration of @cache when the endpoint gives none
DefaultExpiration == 3600

\* the arguments of the decorators of the posts endpoints
read_posts_key_prefix ==
    <<"{username}", "_", "p", "o", "s", "t", "s", ":", "p", "a", "g", "e", "_", "{page}", ":", "i", "t", "e", "m", "s", "_", "p", "e", "r", "_", "p", "a", "g", "e", ":", "{items_per_page}">>

read_posts_expiration_short == 60 \div 2

read_posts_expiration == 60

read_post_key_prefix_no_user == <<"p", "o", "s", "t", "_", "c", "a", "c", "h", "e">>

read_post_key_prefix == <<"{username}", "_", "p", "o", "s", "t", "_", "c", "a", "c", "h", "e">>

patch_post_key_prefix_typo == <<"{username}", "_", "p", "o", "s", "t", "s", "_", "c", "a", "c", "h", "e">>

patch_post_key_prefix == <<"{username}", "_", "p", "o", "s", "t", "_", "c", "a", "c", "h", "e">>

patch_post_patterns_any_user == {<<"*", "_", "p", "o", "s", "t", "s", ":", "*">>}

patch_post_patterns == {<<"{username}", "_", "p", "o", "s", "t", "s", ":", "*">>}

erase_post_key_prefix == <<"{username}", "_", "p", "o", "s", "t", "_", "c", "a", "c", "h", "e">>

erase_post_extra == {[key_prefix |-> <<"{username}", "_", "p", "o", "s", "t", "s">>,
                      id |-> <<"{username}">>]}

erase_db_post_key_prefix == <<"{username}", "_", "p", "o", "s", "t", "_", "c", "a", "c", "h", "e">>

erase_db_post_extra == {[key_prefix |-> <<"{username}", "_", "p", "o", "s", "t", "s">>,
                         id |-> <<"{username}">>]}

\* the response of an endpoint that raised
Raised(status, detail, table) ==
    [status |-> status, body |-> [detail |-> detail], posts |-> table]

PostRead(p) == [id |-> p.id, text |-> p.text,
                created_by_user_id |-> p.created_by_user_id]

RECURSIVE ById(_)
\* rows in the order of their ids
ById(rows) ==
    IF rows = {} THEN <<>>
    ELSE LET first == CHOOSE r \in rows : \A q \in rows : r.id <= q.id
         IN <<first>> \o ById(rows \ {first})

\* the body of read_post
read_post_handler(username, id) ==
    LET db_user == {u \in users : u.username = username /\ ~u.is_deleted}
        db_post == {p \in posts : /\ p.id = id
                                  /\ \E u \in db_user : p.created_by_user_id = u.id
                                  /\ ~p.is_deleted}
    IN IF db_user = {} THEN Raised("NotFound", "User not found", posts)
       ELSE IF db_post = {} THEN Raised("NotFound", "Post not found", posts)
       ELSE [status |-> "ok", body |-> PostRead(CHOOSE p \in db_post : TRUE),
             posts |-> posts]

\* the body of read_posts
read_posts_handler(username, page, items_per_page) ==
    LET db_user == {u \in users : u.username = username /\ ~u.is_deleted}
        rows == ById({p \in posts : /\ \E u \in db_user : p.created_by_user_id = u.id
                                    /\ ~p.is_deleted})
        offset == (page - 1) * items_per_page
        last == IF Len(rows) < offset + items_per_page THEN Len(rows)
                ELSE offset + items_per_page
    IN IF db_user = {} THEN Raised("NotFound", "User not found", posts)
       ELSE [status |-> "ok",
             body |-> [data |-> [n \in 1..(IF last > offset THEN last - offset ELSE 0)
                                   |-> PostRead(rows[offset + n])],
                       total_count |-> Len(rows),
                       has_more |-> (page * items_per_page < Len(rows)),
                       page |-> page, items_per_page |-> items_per_page],
             posts |-> posts]

\* a mistaken body: the row is written before the caller is checked
patch_post_handler_late_check(username, id, values, current_user) ==
    LET db_user == {u \in users : u.username = username /\ ~u.is_deleted}
        db_post == {p \in posts : p.id = id /\ ~p.is_deleted}
        written == {IF p.id = id THEN [p EXCEPT !.text = values.text] ELSE p
                       : p \in posts}
    IN IF db_user = {} THEN Raised("NotFound", "User not found", posts)
       ELSE IF db_post = {} THEN Raised("NotFound", "Post not found", posts)
       ELSE IF \A u \in db_user : current_user.id # u.id
       THEN Raised("Forbidden", "Forbidden", written)
       ELSE [status |-> "ok", body |-> [message |-> "Post updated"],
             posts |-> written]

\* the body of patch_post
patch_post_handler(username, id, values, current_user) ==
    LET db_user == {u \in users : u.username = username /\ ~u.is_deleted}
        db_post == {p \in posts : p.id = id /\ ~p.is_deleted}
    IN IF db_user = {} THEN Raised("NotFound", "User not found", posts)
       ELSE IF \A u \in db_user : current_user.id # u.id
       THEN Raised("Forbidden", "Forbidden", posts)
       ELSE IF db_post = {} THEN Raised("NotFound", "Post not found", posts)
       ELSE [status |-> "ok", body |-> [message |-> "Post updated"],
             posts |-> {IF p.id = id THEN [p EXCEPT !.text = values.text] ELSE p
                           : p \in posts}]

\* the body of erase_post; the post table has is_deleted, so delete marks the row
erase_post_handler(username, id, current_user) ==
    LET db_user == {u \in users : u.username = username /\ ~u.is_deleted}
        db_post == {p \in posts : p.id = id /\ ~p.is_deleted}
    IN IF db_user = {} THEN Raised("NotFound", "User not found", posts)
       ELSE IF \A u \in db_user : current_user.id # u.id
       THEN Raised("Forbidden", "Forbidden", posts)
       ELSE IF db_post = {} THEN Raised("NotFound", "Post not found", posts)
       ELSE [status |-> "ok", body |-> [message |-> "Post deleted"],
             posts |-> {IF p.id = id THEN [p EXCEPT !.is_deleted = TRUE] ELSE p
                           : p \in posts}]

\* get_current_superuser, then the body of erase_db_post: db_delete removes
\* the row
erase_db_post_handler(username, id, current_user) ==
    LET db_user == {u \in users : u.username = username /\ ~u.is_deleted}
        db_post == {p \in posts : p.id = id /\ ~p.is_deleted}
    IN IF ~current_user.is_superuser
       THEN Raised("Forbidden", "You do not have enough privileges.", posts)
       ELSE IF db_user = {} THEN Raised("NotFound", "User not found", posts)
       ELSE IF db_post = {} THEN Raised("NotFound", "Post not found", posts)
       ELSE [status |-> "ok", body |-> [message |-> "Post deleted from the database"],
             posts |-> {p \in posts : p.id # id}]

NoStore == -1

\* history: the miss that stores under key at time now
Stored(key, op, body) ==
    [k \in DOMAIN stored \cup {key} |->
        IF k = key
        THEN [op |-> op, body |-> body, at |-> now, valid |-> TRUE,
              prev_at |-> IF key \in DOMAIN stored THEN stored[key].at ELSE NoStore,
              prev_valid |-> key \in DOMAIN stored /\ stored[key].valid]
        ELSE stored[k]]

\* history: the keys an invalidation names or matches
Invalidated(keys, patterns) ==
    [k \in DOMAIN stored |->
        IF k \in keys \/ \E p \in patterns : glob(p, k)
        THEN [stored[k] EXCEPT !.valid = FALSE] ELSE stored[k]]

\* @cache around a GET endpoint whose body would answer h
cached_get(op, request, key, expiration, h) ==
    /\ nreq < MaxRequests
    /\ nreq' = nreq + 1
    /\ IF key \in DOMAIN cache
       THEN /\ resp' = [op |-> op, request |-> request, status |-> "ok",
                        body |-> json_loads(cache[key].value),
                        handler |-> FALSE, key |-> key, at |-> now]
            /\ UNCHANGED <<posts, cache, stored>>
       ELSE /\ resp' = [op |-> op, request |-> request, status |-> h.status,
                        body |-> h.body,
                        handler |-> TRUE, key |-> key, at |-> now]
            /\ posts' = h.posts
            /\ IF h.status = "ok"
               THEN /\ cache' = redis_set(cache, key, json_dumps(h.body),
                                          expiration, now)
                    /\ stored' = Stored(key, op, h.body)
               ELSE UNCHANGED <<cache, stored>>
    /\ UNCHANGED <<rlVars, concVars, sanVars, authVars>>
    /\ UNCHANGED <<users, tiers, seq, rate_limits, rate_limit_seq, erased, nheavy>>

\* @cache around a PATCH or DELETE endpoint whose body answers h: the body
\* runs, and after it has returned the key, the extra keys and the keys the
\* patterns match are deleted
cached_write(op, request, key, extra, patterns, h) ==
    /\ nreq < MaxRequests
    /\ nreq' = nreq + 1
    /\ resp' = [op |-> op, request |-> request, status |-> h.status,
                body |-> h.body,
                handler |-> TRUE, key |-> key, at |-> now]
    /\ posts' = h.posts
    /\ IF h.status = "ok"
       THEN /\ cache' = redis_delete(cache,
                   {key} \cup extra \cup UNION {redis_scan(cache, p) : p \in patterns})
            /\ stored' = Invalidated({key} \cup extra, patterns)
       ELSE UNCHANGED <<cache, stored>>
    /\ UNCHANGED <<rlVars, concVars, sanVars, authVars>>
    /\ UNCHANGED <<users, tiers, seq, rate_limits, rate_limit_seq, erased, nheavy>>

Kwargs(username, id) ==
    ("{username}" :> username) @@ ("{id}" :> str(id))

\* GET /{username}/posts?page=&items_per_page=
read_posts(username, page, items_per_page) ==
    LET kwargs == ("{username}" :> username) @@ ("{page}" :> str(page))
                    @@ ("{items_per_page}" :> str(items_per_page))
    IN cached_get("read_posts",
                  [username |-> username, page |-> page,
                   items_per_page |-> items_per_page],
                  cache_key(read_posts_key_prefix, username, kwargs),
                  read_posts_expiration,
                  read_posts_handler(username, page, items_per_page))

\* GET /{username}/post/{id}
read_post(username, id) ==
    cached_get("read_post", [username |-> username, id |-> id],
               cache_key(read_post_key_prefix, str(id), Kwargs(username, id)),
               DefaultExpiration,
               read_post_handler(username, id))

\* PATCH /{username}/post/{id}
patch_post(username, id, values, current_user) ==
    cached_write("patch_post",
                 [username |-> username, id |-> id,
                  current_user |-> current_user.id],
                 cache_key(patch_post_key_prefix, str(id), Kwargs(username, id)),
                 {},
                 {format(p, Kwargs(username, id)) : p \in patch_post_patterns},
                 patch_post_handler(username, id, values, current_user))

\* the same endpoint, had a key that is not there been an error
erase_post_key_must_exist(username, id, current_user) ==
    LET key == cache_key(erase_post_key_prefix, str(id), Kwargs(username, id))
        h == erase_post_handler(username, id, current_user)
    IN cached_write("erase_post",
                 [username |-> username, id |-> id,
                  current_user |-> current_user.id], key,
                    {cache_key(e.key_prefix, format(e.id, Kwargs(username, id)),
                               Kwargs(username, id)) : e \in erase_post_extra},
                    {},
                    IF h.status = "ok" /\ key \notin DOMAIN cache
                    THEN Raised("ServerError", "no such key", h.posts) ELSE h)

\* DELETE /{username}/post/{id}
erase_post(username, id, current_user) ==
    cached_write("erase_post",
                 [username |-> username, id |-> id,
                  current_user |-> current_user.id],
                 cache_key(erase_post_key_prefix, str(id), Kwargs(username, id)),
                 {cache_key(e.key_prefix, format(e.id, Kwargs(username, id)),
                            Kwargs(username, id)) : e \in erase_post_extra},
                 {},
                 erase_post_handler(username, id, current_user))

\* DELETE /{username}/db_post/{id}
erase_db_post(username, id, current_user) ==
    cached_write("erase_db_post",
                 [username |-> username, id |-> id,
                  current_user |-> current_user.id],
                 cache_key(erase_db_post_key_prefix, str(id), Kwargs(username, id)),
                 {cache_key(e.key_prefix, format(e.id, Kwargs(username, id)),
                            Kwargs(username, id)) : e \in erase_db_post_extra},
                 {},
                 erase_db_post_handler(username, id, current_user))

\* time passes; Redis drops what has expired
TickCache ==
    \E d \in TickSteps :
        /\ now + d <= d * MaxCacheTicks
        /\ now' = now + d
        /\ cache' = redis_live(cache, now + d)
        /\ rl_store' = redis_live(rl_store, now + d)
        /\ UNCHANGED <<verdicts, ncalls, posts, stored, nreq>>
        /\ UNCHANGED <<concVars, sanVars, dbVars, authVars>>

NextCache ==
    \/ \E u \in Usernames, p \in Pages, n \in PageSizes : read_posts(u, p, n)
    \/ \E u \in Usernames, id \in PostIds : read_post(u, id)
    \/ \E u \in Usernames, id \in PostIds, v \in PostUpdates, c \in users :
          patch_post(u, id, v, c)
    \/ \E u \in Usernames, id \in PostIds, c \in users : erase_post(u, id, c)
    \/ \E u \in Usernames, id \in PostIds, c \in users : erase_db_post(u, id, c)
    \/ TickCache

SpecCache == Init /\ [][NextCache]_vars

---------------------------------------------------------------------------
(* The cache as the reads of the posts endpoints can have left it *)

\* the reads that succeed on the initial tables
StartReads ==
    {[op |-> "read_posts",
      key |-> cache_key(read_posts_key_prefix, u,
                        ("{username}" :> u) @@ ("{page}" :> str(p))
                            @@ ("{items_per_page}" :> str(n))),
      expiration |-> read_posts_expiration,
      body |-> read_posts_handler(u, p, n).body]
        : u \in Usernames, p \in Pages, n \in PageSizes}
    \cup
    {[op |-> "read_post",
      key |-> cache_key(read_post_key_prefix, str(id), Kwargs(u, id)),
      expiration |-> DefaultExpiration,
      body |-> read_post_handler(u, id).body]
        : <<u, id>> \in {x \in Usernames \X PostIds :
                            read_post_handler(x[1], x[2]).status = "ok"}}

\* the cache after the reads S, all made at time 0
CacheAfter(S) ==
    [k \in {r.key : r \in S} |->
        LET r == CHOOSE r \in S : r.key = k
        IN [value |-> json_dumps(r.body), expireAt |-> r.expiration]]

StoredAfter(S) ==
    [k \in {r.key : r \in S} |->
        LET r == CHOOSE r \in S : r.key = k
        IN [op |-> r.op, body |-> r.body, at |-> 0, valid |-> TRUE,
            prev_at |-> NoStore, prev_valid |-> FALSE]]

InitInval ==
    /\ InitLimiter
    /\ rule = [limit |-> 0, period |-> 1]
    /\ InitCalls
    /\ InitPaths
    /\ users = InitUsers
    /\ tiers = InitTiers
    /\ seq = InitSeq
    /\ rate_limits = {}
    /\ rate_limit_seq = 0
    /\ resp = [op |-> "none"]
    /\ erased = {}
    /\ nheavy = 0
    /\ posts = InitPosts
    /\ nreq = 0
    /\ token_blacklist = {}
    /\ revoked = {}
    /\ issued = {}
    /\ \E S \in SUBSET StartReads :
          /\ cache = CacheAfter(S)
          /\ stored = StoredAfter(S)

NextInval ==
    \/ \E u \in Usernames, id \in PostIds, v \in PostUpdates, c \in users :
          patch_post(u, id, v, c)
    \/ \E u \in Usernames, id \in PostIds, c \in users : erase_post(u, id, c)
    \/ \E u \in Usernames, id \in PostIds, c \in users : erase_db_post(u, id, c)

SpecInval == InitInval /\ [][NextInval]_vars

---------------------------------------------------------------------------
(* Claims about the response cache *)

StartsWith(key, prefix) ==
    Len(prefix) <= Len(key) /\ SubSeq(key, 1, Len(prefix)) = prefix

\* "<username>_post_cache:<id>"
PostKey(username, id) == username \o <<"_", "p", "o", "s", "t", "_", "c", "a", "c", "h", "e", ":">> \o str(id)

\* "<username>_posts:"
PagesPrefix(username) == username \o <<"_", "p", "o", "s", "t", "s", ":">>

\* "<username>_posts:page_<page>:"
PagePrefix(username, page) ==
    PagesPrefix(username) \o <<"p", "a", "g", "e", "_">> \o str(page) \o <<":">>

\* the seconds an entry is to be served: 60 for a page of read_posts, the
\* default of the decorator for read_post
ServedFor(k) == IF stored[k].op = "read_posts" THEN 60 ELSE DefaultExpiration

\* the entry stored last under k is still to be served at time t
Fresh(k, t) ==
    k \in DOMAIN stored /\ stored[k].valid /\ t < stored[k].at + ServedFor(k)

\* C7: a response R stored under key K with a TTL is what every read of K
\* returns until the TTL has elapsed, unless K was invalidated in between;
\* a read of K after the TTL has elapsed is a miss.
C7_RoundTrip ==
    /\ \A k \in DOMAIN stored :
          \* no miss replaced an entry that was still to be served
          (stored[k].prev_at # NoStore /\ stored[k].prev_valid)
              => stored[k].at >= stored[k].prev_at + ServedFor(k)
    /\ (resp.op \in {"read_post", "read_posts"} /\ resp.handler
            /\ resp.status # "ok")
          => ~Fresh(resp.key, resp.at)
    /\ (resp.op \in {"read_post", "read_posts"} /\ ~resp.handler)
          => /\ Fresh(resp.key, resp.at)
             /\ resp.status = "ok"
             /\ resp.body = stored[resp.key].body

\* a page stored at time 0 is served again half a minute later
C7_Witness ==
    /\ resp.op = "read_posts"
    /\ ~resp.handler
    /\ resp.at > stored[resp.key].at
    /\ resp.body = stored[resp.key].body
    /\ Len(resp.body.data) = 1

\* the page has expired and the next read stores it anew
C7_WitnessExpired ==
    /\ resp.op = "read_posts"
    /\ resp.handler
    /\ stored[resp.key].prev_valid
    /\ stored[resp.key].at = stored[resp.key].prev_at + 60

\* an invalidated entry is read anew before its TTL has elapsed
C7_WitnessInvalidated ==
    /\ resp.op = "read_post"
    /\ resp.handler
    /\ resp.status = "ok"
    /\ stored[resp.key].prev_at # NoStore
    /\ ~stored[resp.key].prev_valid
    /\ resp.body.text = TextY

C8_Step ==
    (resp'.op = "patch_post" /\ resp'.status = "ok" /\ nreq' # nreq) =>
        LET u == resp'.request.username
            id == resp'.request.id
        IN /\ \A k \in DOMAIN cache' : ~StartsWith(k, PagesPrefix(u))
           /\ \A k \in DOMAIN cache :
                 (~StartsWith(k, PagesPrefix(u)) /\ k # PostKey(u, id))
                     => (k \in DOMAIN cache' /\ cache'[k] = cache[k])
           /\ DOMAIN cache' \subseteq DOMAIN cache

\* C8: invalidating the pattern "<username>_posts:*", as patch_post does,
\* deletes every key that starts with "<username>_posts:" and leaves every
\* other key and its value as they were: all cached pages of alice go, no
\* key of bob does.
C8_PatternFrame == [][C8_Step]_vars

\* alice patched her post with two of her pages and a page of bob cached
C8_Witness ==
    /\ resp.op = "patch_post"
    /\ resp.status = "ok"
    /\ nreq = 1
    /\ now = 0
    /\ \E k1, k2 \in DOMAIN stored :
          /\ StartsWith(k1, PagePrefix(alice, 1))
          /\ StartsWith(k2, PagePrefix(alice, 2))
          /\ ~stored[k1].valid /\ ~stored[k2].valid
          /\ k1 \notin DOMAIN cache /\ k2 \notin DOMAIN cache
    /\ \E k \in DOMAIN cache : StartsWith(k, PagePrefix(bob, 1))
    /\ PostKey(bob, 2) \in DOMAIN cache

C9_Step ==
    (/\ resp'.op \in {"erase_post", "patch_post"}
     /\ nreq' # nreq
     /\ \E c \in users : c.id = resp'.request.current_user
                          /\ c.username = resp'.request.username
     /\ \E p \in posts : p.id = resp'.request.id /\ ~p.is_deleted
     /\ \A k \in DOMAIN cache :
           ~StartsWith(k, resp'.request.username \o <<"_", "p", "o", "s", "t">>))
        => (resp'.status = "ok" /\ cache' = cache)

\* C9: invalidating a key that is absent, or a pattern that matches no key,
\* raises nothing and leaves the cache as it was: a PATCH or DELETE that
\* succeeds on a post of which nothing was ever cached answers with its
\* normal success.
C9_AbsentIsNoOp == [][C9_Step]_vars

\* alice deleted her post; none of her keys was ever stored, bob's are there
C9_Witness ==
    /\ resp.op = "erase_post"
    /\ resp.status = "ok"
    /\ resp.body = [message |-> "Post deleted"]
    /\ nreq = 1
    /\ \A k \in DOMAIN stored : ~StartsWith(k, alice \o <<"_", "p", "o", "s", "t">>)
    /\ \E p \in posts : p.id = 1 /\ p.is_deleted
    /\ PostKey(bob, 2) \in DOMAIN cache
    /\ \E k \in DOMAIN cache : StartsWith(k, PagesPrefix(bob))

C10_Step ==
    (resp'.op = "read_post" /\ nreq' # nreq) =>
        LET K == PostKey(resp'.request.username, resp'.request.id)
            h == read_post_handler(resp'.request.username, resp'.request.id)
        IN IF K \in DOMAIN cache
           THEN /\ ~resp'.handler
                /\ resp'.status = "ok"
                /\ resp'.body = json_loads(cache[K].value)
                /\ cache' = cache
                /\ posts' = posts
           ELSE /\ resp'.handler
                /\ resp'.status = h.status
                /\ resp'.body = h.body
                /\ IF h.status = "ok"
                   THEN /\ DOMAIN cache' = DOMAIN cache \cup {K}
                        /\ cache'[K] = [value |-> json_dumps(h.body),
                                        expireAt |-> now + DefaultExpiration]
                        /\ \A k \in DOMAIN cache : cache'[k] = cache[k]
                   ELSE cache' = cache

C10_HitIsMiss ==
    (resp.op = "read_post" /\ ~resp.handler)
        => /\ resp.key \in DOMAIN stored
           /\ stored[resp.key].op = "read_post"
           /\ resp.body = stored[resp.key].body

\* C10: read_post with its key in the cache does not run its body and
\* returns the stored payload; with the key absent it runs the body and, if
\* the body succeeds, stores the result under the key with the TTL and
\* returns it; the response of a hit is the response of the miss that
\* stored the entry.
C10_ReadThrough == [][C10_Step]_vars /\ []C10_HitIsMiss

C10_Witness ==
    /\ resp.op = "read_post"
    /\ ~resp.handler
    /\ resp.key = PostKey(alice, 1)
    /\ resp.key \in DOMAIN cache
    /\ resp.body = [id |-> 1, text |-> TextX, created_by_user_id |-> 1]
    /\ resp.body = stored[resp.key].body
    /\ resp.at > stored[resp.key].at

\* the miss: the body ran and its result is in the cache
C10_WitnessMiss ==
    /\ resp.op = "read_post"
    /\ resp.handler
    /\ resp.status = "ok"
    /\ resp.key \in DOMAIN cache
    /\ json_loads(cache[resp.key].value) = resp.body

\* the miss whose body raised: nothing is stored
C10_WitnessNotFound ==
    /\ resp.op = "read_post"
    /\ resp.handler
    /\ resp.status = "NotFound"
    /\ resp.key \notin DOMAIN cache

---------------------------------------------------------------------------
(* Writes and the entries of the cache *)

WriteOps == {"patch_post", "erase_post", "erase_db_post"}

C11_Step ==
    /\ (resp'.op \in WriteOps /\ resp'.status = "ok" /\ nreq' # nreq)
          => PostKey(resp'.request.username, resp'.request.id) \notin DOMAIN cache'
    /\ (/\ resp.op \in WriteOps /\ resp.status = "ok"
        /\ resp'.op = "read_post" /\ nreq' # nreq
        /\ resp'.request.username = resp.request.username
        /\ resp'.request.id = resp.request.id)
          => LET h == read_post_handler(resp.request.username, resp.request.id)
             IN /\ resp'.handler
                /\ resp'.status = h.status
                /\ resp'.body = h.body

\* C11: after patch_post, erase_post or erase_db_post on
\* /{username}/post/{id} has succeeded, the entry of that username and id
\* is not in the cache, and a read_post of the same username and id that
\* comes next runs the body and returns what the body answers, never what
\* was cached before the write.
C11_OwnEntryGone == [][C11_Step]_vars

\* alice's post was cached, then deleted by her; her next read runs the
\* body, which does not find the post
C11_Witness ==
    /\ resp.op = "read_post"
    /\ resp.handler
    /\ resp.status = "NotFound"
    /\ resp.key = PostKey(alice, 1)
    /\ resp.key \in DOMAIN stored
    /\ ~stored[resp.key].valid
    /\ \E p \in posts : p.id = 1 /\ p.is_deleted

\* the same after a PATCH: the next read returns the new text
C11_WitnessPatched ==
    /\ resp.op = "read_post"
    /\ resp.handler
    /\ resp.status = "ok"
    /\ resp.key = PostKey(bob, 2)
    /\ stored[resp.key].prev_at # NoStore
    /\ ~stored[resp.key].prev_valid
    /\ resp.body.text = TextY

\* the same after erase_db_post
C11_WitnessDbDelete ==
    /\ resp.op = "read_post"
    /\ resp.handler
    /\ resp.status = "NotFound"
    /\ resp.key \in DOMAIN stored
    /\ ~stored[resp.key].valid
    /\ \A p \in posts : p.id # 1

C12_Step ==
    (/\ resp'.op \in WriteOps /\ resp'.status = "ok" /\ nreq' # nreq
     /\ \E p \in posts, o \in users :
           /\ p.id = resp'.request.id
           /\ p.created_by_user_id = o.id
           /\ o.username = resp'.request.username)
        => /\ PostKey(resp'.request.username, resp'.request.id) \notin DOMAIN cache'
           /\ \A k \in DOMAIN cache :
                 StartsWith(k, PagesPrefix(resp'.request.username))
                     => k \notin DOMAIN cache'

\* C12: a successful patch_post, erase_post or erase_db_post on a post of
\* user U removes, in the same request, the entry of the post and every page
\* that read_posts cached for U before: no key that starts with
\* "<U>_posts:" and was in the cache before the write is in it afterwards.
C12_PagesGone == [][C12_Step]_vars

---------------------------------------------------------------------------
(* Authentication: tokens, the blacklist, get_current_user and             *)
(* get_optional_user.  A token is what jwt.decode reads from it: the       *)
(* subject, the expiry, and whether the signature is ours.                 *)

MaxLogouts == 2

carol == <<"c", "a", "r", "o", "l">>

\* a payload without "sub"
NoSub == <<"None">>

\* every token we signed, and one that somebody else signed
Tokens == [sub : {alice, bob_mail, carol, NoSub}, exp : {1, 9}, signed : {TRUE}]
              \cup {[sub |-> alice, exp |-> 9, signed |-> FALSE]}

\* the Authorization header: the text before the first space and the text
\* after it; NoHeader when the request has none
NoHeader == [none |-> TRUE]
EmptyValue == [empty |-> TRUE]
Headers ==
    [token_type : {<<"B", "e", "a", "r", "e", "r">>, <<"b", "e", "a", "r", "e", "r">>,
                   <<"B", "a", "s", "i", "c">>},
     token_value : Tokens \cup {EmptyValue}] \cup {NoHeader}

\* str.lower(), on the letters the headers hold
lower(st) == [n \in 1..Len(st) |-> IF st[n] = "B" THEN "b" ELSE st[n]]

\* jwt.decode: JWTError for a signature that is not ours or an expiry in
\* the past
jwt_decode(token, t) ==
    IF ~token.signed \/ token.exp < t
    THEN [error |-> "JWTError"]
    ELSE [error |-> "none", sub |-> token.sub, exp |-> token.exp]

NoTokenData == [none |-> TRUE]

verify_token_no_blacklist(token, blacklist, t) ==
    LET payload == jwt_decode(token, t)
    IN IF payload.error # "none" THEN NoTokenData
       ELSE IF payload.sub = NoSub THEN NoTokenData
       ELSE [username_or_email |-> payload.sub]

verify_token(token, blacklist, t) ==
    LET is_blacklisted == \E row \in blacklist : row.token = token
        payload == jwt_decode(token, t)
    IN IF is_blacklisted THEN NoTokenData
       ELSE IF payload.error # "none" THEN NoTokenData
       ELSE IF payload.sub = NoSub THEN NoTokenData
       ELSE [username_or_email |-> payload.sub]

\* "@" in s
HasAt(st) == \E n \in 1..Len(st) : st[n] = "@"

get_current_user_any_row(token, blacklist, t) ==
    LET token_data == verify_token(token, blacklist, t)
        user == IF token_data = NoTokenData THEN {}
                ELSE IF HasAt(token_data.username_or_email)
                THEN {u \in users : u.email = token_data.username_or_email}
                ELSE {u \in users : u.username = token_data.username_or_email}
    IN IF token_data = NoTokenData THEN [status |-> "Unauthorized", user |-> NoUser]
       ELSE IF user # {} THEN [status |-> "ok", user |-> CHOOSE u \in user : TRUE]
       ELSE [status |-> "Unauthorized", user |-> NoUser]

\* the value or the UnauthorizedException of get_current_user
get_current_user(token, blacklist, t) ==
    LET token_data == verify_token(token, blacklist, t)
        user == IF token_data = NoTokenData THEN {}
                ELSE IF HasAt(token_data.username_or_email)
                THEN {u \in users : /\ u.email = token_data.username_or_email
                                    /\ ~u.is_deleted}
                ELSE {u \in users : /\ u.username = token_data.username_or_email
                                    /\ ~u.is_deleted}
    IN IF token_data = NoTokenData THEN [status |-> "Unauthorized", user |-> NoUser]
       ELSE IF user # {} THEN [status |-> "ok", user |-> CHOOSE u \in user : TRUE]
       ELSE [status |-> "Unauthorized", user |-> NoUser]

get_optional_user_uncaught(header, fault, blacklist, t) ==
    IF header = NoHeader THEN [raised |-> FALSE, user |-> NoUser]
    ELSE IF lower(header.token_type) # <<"b", "e", "a", "r", "e", "r">> \/ header.token_value = EmptyValue
    THEN [raised |-> FALSE, user |-> NoUser]
    ELSE IF fault THEN [raised |-> FALSE, user |-> NoUser]
    ELSE IF verify_token(header.token_value, blacklist, t) = NoTokenData
    THEN [raised |-> FALSE, user |-> NoUser]
    ELSE LET r == get_current_user(header.token_value, blacklist, t)
         IN [raised |-> r.status # "ok", user |-> r.user]

\* get_optional_user; fault: something in the try block raises an exception
\* that is not an HTTPException
get_optional_user(header, fault, blacklist, t) ==
    IF header = NoHeader THEN [raised |-> FALSE, user |-> NoUser]
    ELSE IF lower(header.token_type) # <<"b", "e", "a", "r", "e", "r">> \/ header.token_value = EmptyValue
    THEN [raised |-> FALSE, user |-> NoUser]
    ELSE IF fault THEN [raised |-> FALSE, user |-> NoUser]
    ELSE IF verify_token(header.token_value, blacklist, t) = NoTokenData
    THEN [raised |-> FALSE, user |-> NoUser]
    ELSE LET r == get_current_user(header.token_value, blacklist, t)
         IN IF r.status # "ok" THEN [raised |-> FALSE, user |-> NoUser]
            ELSE [raised |-> FALSE, user |-> r.user]

\* blacklist_token: the row, or the exception of jwt.decode or of the
\* unique index on token
blacklist_token(token, blacklist, t) ==
    LET payload == jwt_decode(token, t)
    IN IF payload.error # "none" THEN [status |-> "JWTError", rows |-> blacklist]
       ELSE IF \E row \in blacklist : row.token = token
       THEN [status |-> "IntegrityError", rows |-> blacklist]
       ELSE [status |-> "ok",
             rows |-> blacklist \cup {[token |-> token, expires_at |-> payload.exp]}]

\* a request to an endpoint that depends on get_optional_user
GetOptionalUser(header, fault) ==
    LET r == get_optional_user(header, fault, token_blacklist, now)
    IN /\ resp' = [op |-> "get_optional_user", header |-> header, fault |-> fault,
                   raised |-> r.raised, user |-> r.user]
       /\ UNCHANGED <<rlVars, concVars, sanVars, cacheVars, authVars>>
       /\ UNCHANGED <<users, tiers, seq, rate_limits, rate_limit_seq, erased, nheavy>>

\* a request to an endpoint that depends on get_current_user
GetCurrentUser(token) ==
    LET r == get_current_user(token, token_blacklist, now)
    IN /\ resp' = [op |-> "get_current_user", token |-> token,
                   status |-> r.status, user |-> r.user]
       /\ UNCHANGED <<rlVars, concVars, sanVars, cacheVars, authVars>>
       /\ UNCHANGED <<users, tiers, seq, rate_limits, rate_limit_seq, erased, nheavy>>

\* POST /logout
logout(access_token) ==
    LET b == blacklist_token(access_token, token_blacklist, now)
    IN /\ Cardinality(token_blacklist) < MaxLogouts
       /\ token_blacklist' = b.rows
       /\ revoked' = IF b.status = "ok" THEN revoked \cup {access_token} ELSE revoked
       /\ resp' = [op |-> "logout", token |-> access_token,
                   status |-> IF b.status = "ok" THEN "ok"
                              ELSE IF b.status = "JWTError" THEN "Unauthorized"
                              ELSE "ServerError"]
       /\ UNCHANGED <<rlVars, concVars, sanVars, cacheVars, issued>>
       /\ UNCHANGED <<users, tiers, seq, rate_limits, rate_limit_seq, erased, nheavy>>

\* DELETE /user/{username}: the row of "user" is marked deleted and the
\* token of the request is blacklisted
erase_user(username, token) ==
    LET current_user == get_current_user(token, token_blacklist, now)
        db_user == {u \in users : u.username = username}
        b == blacklist_token(token, token_blacklist, now)
    IN /\ Cardinality(token_blacklist) < MaxLogouts
       /\ IF current_user.status # "ok"
          THEN /\ resp' = [op |-> "erase_user", token |-> token,
                           status |-> "Unauthorized"]
               /\ UNCHANGED <<users, token_blacklist, revoked>>
          ELSE IF db_user = {}
          THEN /\ resp' = [op |-> "erase_user", token |-> token,
                           status |-> "NotFound"]
               /\ UNCHANGED <<users, token_blacklist, revoked>>
          ELSE IF username # current_user.user.username
          THEN /\ resp' = [op |-> "erase_user", token |-> token,
                           status |-> "Forbidden"]
               /\ UNCHANGED <<users, token_blacklist, revoked>>
          ELSE /\ users' = {IF u.username = username
                            THEN [u EXCEPT !.is_deleted = TRUE] ELSE u : u \in users}
               /\ token_blacklist' = b.rows
               /\ revoked' = IF b.status = "ok" THEN revoked \cup {token} ELSE revoked
               /\ resp' = [op |-> "erase_user", token |-> token,
                           status |-> IF b.status = "ok" THEN "ok" ELSE "ServerError"]
       /\ UNCHANGED <<rlVars, concVars, sanVars, cacheVars, issued>>
       /\ UNCHANGED <<tiers, seq, rate_limits, rate_limit_seq, erased, nheavy>>

NextAuth ==
    \/ \E h \in Headers, f \in BOOLEAN : GetOptionalUser(h, f)
    \/ \E t \in Tokens : GetCurrentUser(t)
    \/ \E t \in Tokens : logout(t)
    \/ \E u \in Usernames, t \in Tokens : erase_user(u, t)
    \/ Tick

SpecAuth == Init /\ [][NextAuth]_vars

---------------------------------------------------------------------------
(* Claims about authentication *)

\* the non-deleted users a subject names: by email when it holds "@", by
\* username otherwise
Resolves(sub) ==
    {u \in users : /\ ~u.is_deleted
                   /\ IF HasAt(sub) THEN u.email = sub ELSE u.username = sub}

\* the token is not blacklisted, carries our signature, has not expired and
\* has a subject
ValidNow(tk) ==
    /\ \A row \in token_blacklist : row.token # tk
    /\ tk.signed
    /\ tk.exp >= now
    /\ tk.sub # NoSub

\* the header reads "Bearer <non-empty token>" (the scheme in any case)
IsBearer(h) ==
    /\ h # NoHeader
    /\ h.token_type \in {<<"B", "e", "a", "r", "e", "r">>, <<"b", "e", "a", "r", "e", "r">>}
    /\ h.token_value # EmptyValue

C13_Step ==
    (resp' # resp /\ resp'.op = "get_optional_user")
        => LET h == resp'.header
               passes == /\ IsBearer(h)
                         /\ ~resp'.fault
                         /\ ValidNow(h.token_value)
                         /\ Resolves(h.token_value.sub) # {}
           IN /\ ~resp'.raised
              /\ IF passes THEN resp'.user \in Resolves(h.token_value.sub)
                 ELSE resp'.user = NoUser

\* C13: get_optional_user never raises; it answers None for a missing
\* header, a header that is not "Bearer <non-empty token>", a blacklisted,
\* forged or expired token, a subject that is no non-deleted user and an
\* unexpected exception, and answers a user only when the token is not
\* blacklisted, decodes and its subject is a non-deleted user.
C13_OptionalNeverRaises == [][C13_Step]_vars

\* a valid token whose subject is nobody: anonymous, nothing raised
C13_Witness ==
    /\ resp.op = "get_optional_user"
    /\ IsBearer(resp.header)
    /\ ~resp.fault
    /\ resp.header.token_value.sub = carol
    /\ resp.header.token_value.exp >= now
    /\ ~resp.raised
    /\ resp.user = NoUser

C13_WitnessUser ==
    /\ resp.op = "get_optional_user"
    /\ resp.user # NoUser

C13_WitnessFault ==
    /\ resp.op = "get_optional_user"
    /\ IsBearer(resp.header)
    /\ resp.fault
    /\ ValidNow(resp.header.token_value)
    /\ Resolves(resp.header.token_value.sub) # {}
    /\ resp.user = NoUser

C14_Step ==
    (resp' # resp /\ resp'.op = "get_current_user")
        => LET tk == resp'.token
           IN IF ValidNow(tk) /\ Resolves(tk.sub) # {}
              THEN /\ resp'.status = "ok"
                   /\ resp'.user \in Resolves(tk.sub)
              ELSE resp'.status = "Unauthorized"

C14_WitnessEmail ==
    /\ resp.op = "get_current_user"
    /\ resp.status = "ok"
    /\ resp.token.sub = bob_mail
    /\ resp.user.username = bob

C15_Step ==
    /\ (resp' # resp /\ resp'.op = "get_current_user" /\ resp'.token \in revoked)
          => resp'.status = "Unauthorized"
    /\ (/\ resp' # resp /\ resp'.op = "get_optional_user"
        /\ resp'.header # NoHeader
        /\ resp'.header.token_value \in revoked)
          => ~resp'.raised /\ resp'.user = NoUser
    /\ (revoked' # revoked)
          => \A other \in Tokens \ {resp'.token} :
                /\ verify_token(other, token_blacklist', now')
                      = verify_token(other, token_blacklist, now)
                /\ resp'.op = "logout"
                      => get_current_user(other, token_blacklist', now')
                            = get_current_user(other, token_blacklist, now)

C15_Rejected ==
    \A tk \in revoked : verify_token(tk, token_blacklist, now) = NoTokenData

C15_WitnessOther ==
    /\ resp.op = "get_current_user"
    /\ resp.status = "ok"
    /\ \E tk \in revoked : tk.sub = resp.token.sub /\ tk # resp.token

\* a second logout with the same token meets the unique index
C15_WitnessTwice ==
    /\ resp.op = "logout"
    /\ resp.status = "ServerError"

---------------------------------------------------------------------------
(* The endpoints of tiers, rate limits, users and posts, each request made *)
(* as a user that get_current_user has returned.                           *)

MaxApiRequests == 2
MaxTiers == 2

get_current_superuser_any_user(current_user, op, Body) == Body

\* Depends(get_current_superuser) in front of the endpoint Body
get_current_superuser(current_user, op, Body) ==
    IF ~current_user.is_superuser
    THEN /\ resp' = [op |-> op, status |-> "Forbidden",
                     current_user |-> current_user.id]
         /\ UNCHANGED <<rlVars, concVars, sanVars, cacheVars, authVars>>
         /\ UNCHANGED <<users, tiers, seq, rate_limits, rate_limit_seq, erased, nheavy>>
    ELSE Body

\* POST /tier
write_tier(tier) ==
    /\ nreq < MaxApiRequests
    /\ seq.tier < MaxTiers
    /\ nreq' = nreq + 1
    /\ IF \E t \in tiers : t.name = tier.name
       THEN /\ resp' = [op |-> "write_tier", status |-> "DuplicateValue"]
            /\ UNCHANGED <<tiers, seq>>
       ELSE /\ tiers' = tiers \cup {[id |-> seq.tier + 1, name |-> tier.name]}
            /\ seq' = [seq EXCEPT !.tier = @ + 1]
            /\ resp' = [op |-> "write_tier", status |-> "created"]
    /\ UNCHANGED <<rlVars, concVars, sanVars, authVars, posts, cache, stored>>
    /\ UNCHANGED <<users, rate_limits, rate_limit_seq, erased, nheavy>>

\* PATCH /tier/{name}; the column name is unique
patch_tier(name, values) ==
    LET db_tier == {t \in tiers : t.name = name}
    IN /\ nreq < MaxApiRequests
       /\ nreq' = nreq + 1
       /\ IF db_tier = {}
          THEN /\ resp' = [op |-> "patch_tier", status |-> "NotFound"]
               /\ UNCHANGED tiers
          ELSE IF \E t \in tiers \ db_tier : t.name = values.name
          THEN /\ resp' = [op |-> "patch_tier", status |-> "ServerError"]
               /\ UNCHANGED tiers
          ELSE /\ tiers' = {IF t.name = name THEN [t EXCEPT !.name = values.name]
                            ELSE t : t \in tiers}
               /\ resp' = [op |-> "patch_tier", status |-> "updated"]
       /\ UNCHANGED <<rlVars, concVars, sanVars, authVars, posts, cache, stored>>
       /\ UNCHANGED <<users, seq, rate_limits, rate_limit_seq, erased, nheavy>>

\* DELETE /tier/{name}; user.tier_id and rate_limit.tier_id are foreign keys
\* of tier.id
erase_tier(name) ==
    LET db_tier == {t \in tiers : t.name = name}
    IN /\ nreq < MaxApiRequests
       /\ nreq' = nreq + 1
       /\ IF db_tier = {}
          THEN /\ resp' = [op |-> "erase_tier", status |-> "NotFound"]
               /\ UNCHANGED tiers
          ELSE IF \E t \in db_tier :
                     \/ \E u \in users : u.tier_id = t.id
                     \/ \E r \in rate_limits : r.tier_id = t.id
          THEN /\ resp' = [op |-> "erase_tier", status |-> "ServerError"]
               /\ UNCHANGED tiers
          ELSE /\ tiers' = tiers \ db_tier
               /\ resp' = [op |-> "erase_tier", status |-> "deleted"]
       /\ UNCHANGED <<rlVars, concVars, sanVars, authVars, posts, cache, stored>>
       /\ UNCHANGED <<users, seq, rate_limits, rate_limit_seq, erased, nheavy>>

\* bodies of PATCH /tier/{tier_name}/rate_limit/{id}: the fields that are set
RuleUpdates ==
    {[path |-> p] : p \in RulePaths} \cup {[name |-> n] : n \in RuleNames}
        \cup {[limit |-> l] : l \in RuleLimits}

\* PATCH /tier/{tier_name}/rate_limit/{id}; the column name is unique
patch_rate_limit(tier_name, id, values) ==
    LET db_tier == {t \in tiers : t.name = tier_name}
        db_rate_limit == {r \in rate_limits :
                             (\E t \in db_tier : r.tier_id = t.id) /\ r.id = id}
        path == IF "path" \in DOMAIN values
                THEN validate_and_sanitize_path(values.path) ELSE <<>>
        db_rate_limit_path ==
            /\ "path" \in DOMAIN values
            /\ \E r \in rate_limits :
                  (\E t \in db_tier : r.tier_id = t.id) /\ r.path = path
    IN /\ nreq < MaxApiRequests
       /\ nreq' = nreq + 1
       /\ IF db_tier = {}
          THEN /\ resp' = [op |-> "patch_rate_limit", status |-> "NotFound"]
               /\ UNCHANGED <<rate_limits, erased>>
          ELSE IF db_rate_limit = {}
          THEN /\ resp' = [op |-> "patch_rate_limit", status |-> "NotFound"]
               /\ UNCHANGED <<rate_limits, erased>>
          ELSE IF db_rate_limit_path
          THEN /\ resp' = [op |-> "patch_rate_limit", status |-> "DuplicateValue"]
               /\ UNCHANGED <<rate_limits, erased>>
          ELSE IF /\ "name" \in DOMAIN values
                  /\ \E r \in rate_limits \ db_rate_limit : r.name = values.name
          THEN /\ resp' = [op |-> "patch_rate_limit", status |-> "ServerError"]
               /\ UNCHANGED <<rate_limits, erased>>
          ELSE /\ rate_limits' =
                     {IF r.id = id
                      THEN [id |-> r.id, tier_id |-> r.tier_id,
                            path |-> IF "path" \in DOMAIN values THEN path ELSE r.path,
                            limit |-> IF "limit" \in DOMAIN values THEN values.limit
                                      ELSE r.limit,
                            period |-> r.period,
                            name |-> IF "name" \in DOMAIN values THEN values.name
                                     ELSE r.name]
                      ELSE r : r \in rate_limits}
               /\ erased' = IF "path" \in DOMAIN values
                            THEN (erased \cup {<<r.tier_id, r.path>> : r \in db_rate_limit})
                                     \ {<<r.tier_id, path>> : r \in db_rate_limit}
                            ELSE erased
               /\ resp' = [op |-> "patch_rate_limit", status |-> "updated"]
       /\ UNCHANGED <<rlVars, concVars, sanVars, authVars, posts, cache, stored>>
       /\ UNCHANGED <<users, tiers, seq, rate_limit_seq, nheavy>>

\* PATCH /user/{username}/tier
patch_user_tier(username, values) ==
    LET db_user == {u \in users : u.username = username}
        db_tier == {t \in tiers : t.id = values.tier_id}
    IN /\ nreq < MaxApiRequests
       /\ nreq' = nreq + 1
       /\ IF db_user = {}
          THEN /\ resp' = [op |-> "patch_user_tier", status |-> "NotFound"]
               /\ UNCHANGED users
          ELSE IF db_tier = {}
          THEN /\ resp' = [op |-> "patch_user_tier", status |-> "NotFound"]
               /\ UNCHANGED users
          ELSE /\ users' = {IF u.username = username
                            THEN [u EXCEPT !.tier_id = values.tier_id] ELSE u
                               : u \in users}
               /\ resp' = [op |-> "patch_user_tier", status |-> "updated"]
       /\ UNCHANGED <<rlVars, concVars, sanVars, authVars, posts, cache, stored>>
       /\ UNCHANGED <<tiers, seq, rate_limits, rate_limit_seq, erased, nheavy>>

\* bodies of PATCH /user/{username}: the fields that are set
UserUpdates == {[username |-> bob], [username |-> carol], [email |-> bob_mail]}

UserUpdate_extra_allowed(values) == TRUE

\* the schema UserUpdate: every field optional, extra="forbid"
UserUpdate(values) ==
    DOMAIN values \subseteq {"name", "username", "email", "profile_image_url"}

\* PATCH /user/{username}
patch_user(username, values, current_user) ==
    LET db_user == {u \in users : u.username = username}
    IN /\ nreq < MaxApiRequests
       /\ nreq' = nreq + 1
       /\ IF ~UserUpdate(values)
          THEN /\ resp' = [op |-> "patch_user", status |-> "UnprocessableEntity",
                           current_user |-> current_user.id]
               /\ UNCHANGED users
          ELSE IF db_user = {}
          THEN /\ resp' = [op |-> "patch_user", status |-> "NotFound",
                           current_user |-> current_user.id]
               /\ UNCHANGED users
          ELSE IF \A u \in db_user : u.username # current_user.username
          THEN /\ resp' = [op |-> "patch_user", status |-> "Forbidden",
                           current_user |-> current_user.id]
               /\ UNCHANGED users
          ELSE IF /\ "username" \in DOMAIN values
                  /\ \A u \in db_user : values.username # u.username
                  /\ \E u \in users : u.username = values.username
          THEN /\ resp' = [op |-> "patch_user", status |-> "DuplicateValue",
                           current_user |-> current_user.id]
               /\ UNCHANGED users
          ELSE IF /\ "email" \in DOMAIN values
                  /\ \A u \in db_user : values.email # u.email
                  /\ \E u \in users : u.email = values.email
          THEN /\ resp' = [op |-> "patch_user", status |-> "DuplicateValue",
                           current_user |-> current_user.id]
               /\ UNCHANGED users
          ELSE /\ users' =
                     {IF u.username = username
                      THEN [f \in DOMAIN u |-> IF f \in DOMAIN values
                                               THEN values[f] ELSE u[f]]
                      ELSE u : u \in users}
               /\ resp' = [op |-> "patch_user", status |-> "updated",
                           current_user |-> current_user.id]
       /\ UNCHANGED <<rlVars, concVars, sanVars, authVars, posts, cache, stored>>
       /\ UNCHANGED <<tiers, seq, rate_limits, rate_limit_seq, erased, nheavy>>

\* POST /{username}/post
write_post(username, post, current_user) ==
    LET db_user == {u \in users : u.username = username /\ ~u.is_deleted}
    IN /\ nreq < MaxApiRequests
       /\ nreq' = nreq + 1
       /\ IF db_user = {}
          THEN /\ resp' = [op |-> "write_post", status |-> "NotFound",
                           request |-> [username |-> username,
                                        current_user |-> current_user.id]]
               /\ UNCHANGED <<posts, seq>>
          ELSE IF \A u \in db_user : current_user.id # u.id
          THEN /\ resp' = [op |-> "write_post", status |-> "Forbidden",
                           request |-> [username |-> username,
                                        current_user |-> current_user.id]]
               /\ UNCHANGED <<posts, seq>>
          ELSE /\ posts' = posts \cup
                     {[id |-> seq.post + 1, created_by_user_id |-> u.id,
                       text |-> post.text, is_deleted |-> FALSE] : u \in db_user}
               /\ seq' = [seq EXCEPT !.post = @ + 1]
               /\ resp' = [op |-> "write_post", status |-> "created",
                           request |-> [username |-> username,
                                        current_user |-> current_user.id]]
       /\ UNCHANGED <<rlVars, concVars, sanVars, authVars, cache, stored>>
       /\ UNCHANGED <<users, tiers, rate_limits, rate_limit_seq, erased, nheavy>>

\* the users get_current_user can return
CurrentUsers == {u \in users : ~u.is_deleted}

\* the tokens of the requests below: unexpired ones of alice and of bob
ApiTokens == {t \in Tokens : t.signed /\ t.exp > MaxTime /\ t.sub \in {alice, bob_mail}}

\* bodies of POST /tier/{tier_name}/rate_limit in the requests below
ApiRuleBodies == {b \in RuleBodies : b.limit = 1}

\* the requests below that may change a table are counted together
Budget == nreq + rate_limit_seq + Cardinality(token_blacklist) < MaxApiRequests

\* the requests of current_user to the endpoints that depend on
\* get_current_superuser
AdminRequest(cu) ==
    \/ \E n \in TierNames :
          get_current_superuser(cu, "write_tier", Budget /\ write_tier([name |-> n]))
    \/ \E n \in TierNames, v \in TierNames :
          get_current_superuser(cu, "patch_tier",
                                Budget /\ patch_tier(n, [name |-> v]))
    \/ \E n \in TierNames :
          get_current_superuser(cu, "erase_tier", Budget /\ erase_tier(n))
    \/ \E n \in TierNames, b \in ApiRuleBodies :
          get_current_superuser(cu, "write_rate_limit",
                                Budget /\ write_rate_limit(n, b))
    \/ \E n \in TierNames, id \in 1..MaxRules, v \in RuleUpdates :
          get_current_superuser(cu, "patch_rate_limit",
                                Budget /\ patch_rate_limit(n, id, v))
    \/ \E n \in TierNames, id \in 1..MaxRules :
          get_current_superuser(cu, "erase_rate_limit", erase_rate_limit(n, id))
    \/ \E u \in Usernames, t \in 1..MaxTiers :
          get_current_superuser(cu, "patch_user_tier",
                                Budget /\ patch_user_tier(u, [tier_id |-> t]))

NextApi ==
    \/ \E cu \in CurrentUsers : AdminRequest(cu)
    \/ \E cu \in CurrentUsers, u \in Usernames, v \in UserUpdates :
          Budget /\ patch_user(u, v, cu)
    \/ \E u \in Usernames, t \in ApiTokens : Budget /\ erase_user(u, t)
    \/ \E cu \in CurrentUsers, u \in Usernames :
          Budget /\ write_post(u, [text |-> TextX], cu)
    \/ \E cu \in CurrentUsers, u \in Usernames, id \in PostIds, v \in PostUpdates :
          Budget /\ patch_post(u, id, v, cu)
    \/ \E cu \in CurrentUsers, u \in Usernames, id \in PostIds :
          Budget /\ erase_post(u, id, cu)

SpecApi == Init /\ [][NextApi]_vars

---------------------------------------------------------------------------
(* Claims about the endpoints *)

\* C16: whatever write_rate_limit, patch_rate_limit and erase_rate_limit
\* requests have been served, the table holds at most one rule for each
\* pair (tier_id, path).
C16_OneRulePerPath ==
    \A r1 \in rate_limits, r2 \in rate_limits :
        (r1.tier_id = r2.tier_id /\ r1.path = r2.path) => r1 = r2

Refusals == {"NotFound", "Forbidden", "DuplicateValue"}

C17_Step ==
    (resp' # resp /\ resp'.op # "none" /\ resp'.status \in Refusals)
        => UNCHANGED <<users, posts, tiers, rate_limits, seq, rate_limit_seq,
                       token_blacklist, cache>>

\* C17: a request to an endpoint of users, posts, tiers or rate limits that
\* ends with NotFound, Forbidden or DuplicateValue has created, updated and
\* deleted nothing, blacklisted no token and invalidated no cache entry.
C17_RefusedBeforeEffect == [][C17_Step]_vars

\* a PATCH of a rule to the path another rule of the tier already has
C17_Witness ==
    /\ resp.op = "patch_rate_limit"
    /\ resp.status = "DuplicateValue"
    /\ rate_limits # {}

C17_WitnessForbidden ==
    /\ resp.op = "patch_post"
    /\ resp.status = "Forbidden"

C17_WitnessUser ==
    /\ resp.op = "patch_user"
    /\ resp.status = "DuplicateValue"

C17_WitnessNotFound ==
    /\ resp.op = "erase_tier"
    /\ resp.status = "NotFound"

C18_Step ==
    /\ (resp'.op \in {"patch_post", "erase_post"} /\ nreq' # nreq)
          => \A p \in posts :
                p \notin posts' => p.created_by_user_id = resp'.request.current_user
    /\ (resp'.op = "write_post" /\ nreq' # nreq)
          => \A p \in posts' \ posts :
                /\ p.created_by_user_id = resp'.request.current_user
                /\ \E u \in users : /\ u.id = resp'.request.current_user
                                    /\ u.username = resp'.request.username

\* C18: a post is updated or soft-deleted only by a request of the user who
\* created it, and is created only under the username of the user who makes
\* the request; a request on a post of another user leaves the post as it is.
C18_OwnPostsOnly == [][C18_Step]_vars

C19_Step ==
    \A cu \in CurrentUsers :
        (~cu.is_superuser /\ resp' # resp /\ AdminRequest(cu))
            => /\ resp'.status = "Forbidden"
               /\ UNCHANGED <<tiers, rate_limits, users>>

\* C19: write_tier, patch_tier, erase_tier, write_rate_limit,
\* patch_rate_limit, erase_rate_limit and patch_user_tier requested by a user
\* who is not a superuser end with Forbidden and change no tier, no rule and
\* no user.
C19_SuperuserOnly == [][C19_Step]_vars

\* alice, who is no superuser, is refused the creation of a rule
C19_Witness ==
    /\ resp.op = "write_rate_limit"
    /\ resp.status = "Forbidden"
    /\ \E u \in users : u.id = resp.current_user /\ ~u.is_superuser

\* bob, a superuser, has assigned a tier
C19_WitnessSuperuser ==
    /\ resp.op = "patch_user_tier"
    /\ resp.status = "updated"

---------------------------------------------------------------------------
(* The limiter when the counter store fails *)

\* what the store does to the call: nothing, the module's client is None,
\* INCR raises, EXPIRE raises
Faults == {"none", "client", "incr", "expire"}

\* a mistaken limiter that lets the request pass when the store fails
is_rate_limited_fail_open(store, t, user_id, path, limit, period, fault) ==
    LET key == RateLimitKey(user_id, path, WindowStart(t, period))
        s1 == redis_incr(store, key)
        current_count == s1[key].count
        s2 == IF current_count = 1 THEN redis_expire(s1, key, period, t) ELSE s1
    IN IF fault = "client"
       THEN {[store |-> store, raised |-> FALSE, limited |-> FALSE,
              called |-> {}]}
       ELSE IF fault = "incr"
       THEN {[store |-> s, raised |-> FALSE, limited |-> FALSE,
              called |-> {"incr"}] : s \in {store, s1}}
       ELSE IF fault = "expire" /\ current_count = 1
       THEN {[store |-> s, raised |-> FALSE, limited |-> FALSE,
              called |-> {"incr", "expire"}] : s \in {s1, s2}}
       ELSE {[store |-> s2, raised |-> FALSE,
              limited |-> Exceeds(current_count, limit),
              called |-> IF current_count = 1 THEN {"incr", "expire"} ELSE {"incr"}]}

\* is_rate_limited with its client: the outcomes of the call.  A command that
\* raises may or may not have been carried out by the server.
is_rate_limited_with_client(store, t, user_id, path, limit, period, fault) ==
    LET key == RateLimitKey(user_id, path, WindowStart(t, period))
        s1 == redis_incr(store, key)
        current_count == s1[key].count
        s2 == IF current_count = 1 THEN redis_expire(s1, key, period, t) ELSE s1
    IN IF fault = "client"
       THEN {[store |-> store, raised |-> TRUE, limited |-> FALSE,
              called |-> {}]}
       ELSE IF fault = "incr"
       THEN {[store |-> s, raised |-> TRUE, limited |-> FALSE,
              called |-> {"incr"}] : s \in {store, s1}}
       ELSE IF fault = "expire" /\ current_count = 1
       THEN {[store |-> s, raised |-> TRUE, limited |-> FALSE,
              called |-> {"incr", "expire"}] : s \in {s1, s2}}
       ELSE {[store |-> s2, raised |-> FALSE,
              limited |-> Exceeds(current_count, limit),
              called |-> IF current_count = 1 THEN {"incr", "expire"} ELSE {"incr"}]}

\* rate_limiter in front of a handler, lines 138-161
rate_limiter(user, host, url_path, fault) ==
    \E pol \in rate_limit_policies(user, host, url_path) :
      \E r \in is_rate_limited_with_client(rl_store, now, pol.user_id, pol.path,
                                           pol.limit, pol.period, fault) :
        /\ ncalls < MaxCalls
        /\ ncalls' = ncalls + 1
        /\ rl_store' = r.store
        /\ verdicts' = IF r.raised THEN verdicts
                       ELSE Record(verdicts,
                              Class(pol.user_id, pol.path, pol.limit, pol.period, now),
                              r.limited)
        /\ resp' = [op |-> "rate_limiter", user |-> user.id, path |-> url_path,
                    fault |-> fault, called |-> r.called,
                    status |-> IF r.raised THEN "Exception"
                               ELSE IF r.limited THEN "RateLimitException"
                               ELSE "passed"]
        /\ UNCHANGED <<now, users, tiers, seq, rate_limits, rate_limit_seq, erased,
                       nheavy>>
        /\ UNCHANGED <<concVars, sanVars, cacheVars, authVars>>

NextFault ==
    \/ \E u \in users \cup {NoUser}, p \in RequestPaths, f \in Faults :
          rate_limiter(u, ClientHost, p, f)
    \/ Tick

SpecFault == Init /\ [][NextFault]_vars

\* C20: when the client is not initialised, or the INCR or the EXPIRE call
\* of the request raises, rate_limiter ends with that exception: the request
\* is neither passed to the handler nor answered RateLimited.
C20_FaultPropagates ==
    (/\ resp.op = "rate_limiter"
     /\ \/ resp.fault = "client"
        \/ resp.fault \in resp.called)
        => resp.status = "Exception"

\* the first call of a window, whose EXPIRE raises
C20_Witness ==
    /\ resp.op = "rate_limiter"
    /\ resp.fault = "expire"
    /\ "expire" \in resp.called
    /\ resp.status = "Exception"

C20_WitnessClient ==
    /\ resp.op = "rate_limiter"
    /\ resp.fault = "client"
    /\ resp.status = "Exception"

\* the counter the failed EXPIRE has left without expiry
C20_WitnessNoExpiry ==
    /\ resp.op = "rate_limiter"
    /\ resp.fault = "expire"
    /\ resp.status = "Exception"
    /\ \E k \in DOMAIN rl_store : rl_store[k].expireAt = NoExpiry

---------------------------------------------------------------------------
(* More properties of the limiter *)

C21_Step ==
    /\ \A k \in DOMAIN rl_store \cap DOMAIN rl_store' :
          rl_store'[k].expireAt = rl_store[k].expireAt
    /\ \A k \in DOMAIN rl_store' \ DOMAIN rl_store :
          /\ rl_store'[k].count = 1
          /\ rl_store'[k].expireAt # NoExpiry

\* C21: the expiry of a counter key is set by the call whose INCR returned
\* 1 and by no other: a call that finds the key leaves its expiry as it is,
\* so requests inside a window never extend it.
C21_FirstWriterSetsExpiry == [][C21_Step]_vars

\* a counter that took a further call one second before it expires
C21_Witness ==
    \E k \in DOMAIN rl_store :
        /\ rl_store[k].count >= 2
        /\ rl_store[k].expireAt = now + 1
        /\ \E c \in DOMAIN verdicts : c[5] * c[4] < now /\ Len(verdicts[c]) >= 2

\* the key of the counter of class c
KeyOf(c) == "ratelimit:" \o c[1] \o ":" \o c[2] \o ":" \o ToString(c[5] * c[4])

\* C22: the counter of a window is gone from the store at window_start +
\* period, whenever in the window its first request arrived.
C22_GoneAtWindowEnd ==
    \A c \in DOMAIN verdicts :
        (SingleRule(c) /\ now >= (c[5] + 1) * c[4])
            => KeyOf(c) \notin DOMAIN rl_store

\* every call made so far for the counter partition of class c used c's period
SinglePeriod(c) ==
    \A d \in DOMAIN verdicts : (d[1] = c[1] /\ d[2] = c[2]) => d[4] = c[4]

RECURSIVE SumLen(_)
SumLen(S) ==
    IF S = {} THEN 0
    ELSE LET d == CHOOSE e \in S : TRUE IN Len(verdicts[d]) + SumLen(S \ {d})

\* the calls made in the window of class c, under whatever limit
CallsInWindow(c) ==
    SumLen({d \in DOMAIN verdicts :
               d[1] = c[1] /\ d[2] = c[2] /\ d[4] = c[4] /\ d[5] = c[5]})

Called(c) ==
    /\ c \in DOMAIN verdicts'
    /\ c \notin DOMAIN verdicts \/ verdicts'[c] # verdicts[c]

C26_Step ==
    \A c \in DOMAIN verdicts' :
        Called(c) =>
            /\ \A k \in (DOMAIN rl_store \cup DOMAIN rl_store') \ {KeyOf(c)} :
                  /\ k \in DOMAIN rl_store
                  /\ k \in DOMAIN rl_store'
                  /\ rl_store'[k] = rl_store[k]
            /\ \A d \in DOMAIN verdicts :
                  (d[1] # c[1] \/ d[2] # c[2]) => verdicts'[d] = verdicts[d]

\* C26: a call for identity I and path P changes one counter key, that of
\* (I, sanitize_path(P), window); every other key keeps its count and its
\* expiry, and the verdicts recorded for every other identity or sanitized
\* path are what they were.
C26_OtherPartitionsUntouched == [][C26_Step]_vars

\* one identity has exhausted its limit on a path another identity then
\* passed
C26_Witness ==
    \E c \in DOMAIN verdicts, d \in DOMAIN verdicts :
        /\ c[1] # d[1] /\ c[2] = d[2] /\ c[3] = 1 /\ d[3] = 1
        /\ c[5] = d[5] /\ c[4] = d[4]
        /\ verdicts[c] = <<FALSE, TRUE>>
        /\ verdicts[d] = <<FALSE>>

\* C27: every counter key in the store has an expiry, also after calls whose
\* EXPIRE raised.
C27_EveryKeyExpires ==
    \A k \in DOMAIN rl_store : rl_store[k].expireAt # NoExpiry

---------------------------------------------------------------------------
(* More claims about the endpoints *)

\* another rule of the tier has the requested path, or another rule has the
\* requested name
Clash(tier_name, id, values) ==
    \/ /\ "path" \in DOMAIN values
       /\ \E r \in rate_limits, t \in tiers :
             /\ t.name = tier_name /\ r.tier_id = t.id /\ r.id # id
             /\ r.path = sanitize_path(values.path)
    \/ /\ "name" \in DOMAIN values
       /\ \E r \in rate_limits : r.id # id /\ r.name = values.name

C23_Step ==
    \A n \in TierNames, id \in 1..MaxRules, v \in RuleUpdates :
        (/\ resp'.op = "patch_rate_limit"
         /\ resp'.status # "NotFound"
         /\ patch_rate_limit(n, id, v))
            => IF Clash(n, id, v)
               THEN resp'.status = "DuplicateValue" /\ rate_limits' = rate_limits
               ELSE resp'.status = "updated"

\* C23: for an existing tier and rule, patch_rate_limit answers
\* DuplicateValue and leaves the rule as it is exactly when another rule of
\* the tier has the requested path or another rule has the requested name;
\* otherwise it applies the update.
C23_DuplicateExactly == [][C23_Step]_vars

\* C24: every path in the table rate_limit is a fixed point of
\* sanitize_path, and for a user of the rule's tier a request whose URL path
\* sanitizes to the rule's path is served under a rule of that tier and path,
\* never under the default.
C24_StoredPathsSanitized ==
    \A r \in rate_limits :
        /\ sanitize_path(r.path) = r.path
        /\ \A u \in users, q \in RequestPaths :
              (u.tier_id = r.tier_id /\ sanitize_path(q) = r.path)
                  => \A pol \in rate_limit_policies(u, ClientHost, q) :
                        \E r2 \in rate_limits :
                            /\ r2.tier_id = r.tier_id /\ r2.path = r.path
                            /\ pol.limit = r2.limit /\ pol.period = r2.period

\* a rule written with path "/u/" for the tier of a user: it is stored as
\* "u" and governs the user's requests to "/u"
C24_Witness ==
    /\ resp.op \in {"write_rate_limit", "patch_rate_limit"}
    /\ resp.status \in {"created", "updated"}
    /\ \E r \in rate_limits, u \in users :
          /\ r.path = <<"u">>
          /\ u.tier_id = r.tier_id
          /\ r.path # <<"/", "u", "/">>
          /\ \A pol \in rate_limit_policies(u, ClientHost, <<"/", "u">>) :
                pol.limit = r.limit /\ pol.period = r.period

\* a rule moved to the path "u" by a PATCH with "/u/"
C24_WitnessPatched ==
    /\ resp.op = "patch_rate_limit"
    /\ resp.status = "updated"
    /\ \E r \in rate_limits : r.path = <<"u">>

---------------------------------------------------------------------------
(* Accounts: POST /login, POST /user, PATCH /user/{username},              *)
(* DELETE /user/{username}, DELETE /db_user/{username} and                 *)
(* PATCH /user/{username}/tier, with the access tokens that /login hands   *)
(* out.                                                                    *)

MaxUserRequests == 3

ACCESS_TOKEN_EXPIRE_MINUTES == 30

carol_mail == <<"c", "@", "x">>

\* the user of the credentials, or False (here NoUser)
authenticate_user(username_or_email, password) ==
    LET db_user == IF HasAt(username_or_email)
                   THEN {u \in users : u.email = username_or_email /\ ~u.is_deleted}
                   ELSE {u \in users : u.username = username_or_email /\ ~u.is_deleted}
    IN IF db_user = {} THEN NoUser
       ELSE LET u == CHOOSE u \in db_user : TRUE
            IN IF ~verify_password(password, u.hashed_password) THEN NoUser ELSE u

\* the JWT of "data" that expires expires_delta after t
create_access_token(data, expires_delta, t) ==
    [sub |-> data.sub, exp |-> t + expires_delta, signed |-> TRUE]

\* POST /login
login_for_access_token(username, password) ==
    LET user == authenticate_user(username, password)
        access_token == create_access_token([sub |-> user.username],
                                            ACCESS_TOKEN_EXPIRE_MINUTES, now)
    IN /\ IF user = NoUser
          THEN /\ resp' = [op |-> "login", status |-> "Unauthorized"]
               /\ UNCHANGED issued
          ELSE /\ resp' = [op |-> "login", status |-> "ok",
                           access_token |-> access_token]
               /\ issued' = issued \cup {<<access_token, user.id>>}
       /\ UNCHANGED <<rlVars, concVars, sanVars, cacheVars>>
       /\ UNCHANGED <<token_blacklist, revoked>>
       /\ UNCHANGED <<users, tiers, seq, rate_limits, rate_limit_seq, erased, nheavy>>

\* the schema UserCreate: name, username, email and password,
\* extra="forbid" (the rows here keep no name)
UserCreate(user) ==
    /\ {"username", "email", "password"} \subseteq DOMAIN user
    /\ DOMAIN user \subseteq {"name", "username", "email", "password"}

\* POST /user
write_user(user) ==
    /\ IF ~UserCreate(user)
       THEN /\ resp' = [op |-> "write_user", status |-> "UnprocessableEntity"]
            /\ UNCHANGED <<users, seq>>
       ELSE IF \E u \in users : u.email = user.email
       THEN /\ resp' = [op |-> "write_user", status |-> "DuplicateValue"]
            /\ UNCHANGED <<users, seq>>
       ELSE IF \E u \in users : u.username = user.username
       THEN /\ resp' = [op |-> "write_user", status |-> "DuplicateValue"]
            /\ UNCHANGED <<users, seq>>
       ELSE /\ users' = users \cup
                  {[id |-> seq.user + 1, username |-> user.username,
                    email |-> user.email,
                    hashed_password |-> get_password_hash(user.password),
                    tier_id |-> NoTier, is_superuser |-> FALSE,
                    is_deleted |-> FALSE]}
            /\ seq' = [seq EXCEPT !.user = @ + 1]
            /\ resp' = [op |-> "write_user", status |-> "created"]
    /\ UNCHANGED <<rlVars, concVars, sanVars, cacheVars, authVars>>
    /\ UNCHANGED <<tiers, rate_limits, rate_limit_seq, erased, nheavy>>

\* DELETE /db_user/{username}: the row is removed (the foreign key of
\* post.created_by_user_id refuses it while the user has posts) and the
\* token of the request is blacklisted
erase_db_user(username, token) ==
    LET db_user == {u \in users : u.username = username}
        b == blacklist_token(token, token_blacklist, now)
    IN /\ Cardinality(token_blacklist) < MaxLogouts
       /\ IF db_user = {}
          THEN /\ resp' = [op |-> "erase_db_user", status |-> "NotFound"]
               /\ UNCHANGED <<users, token_blacklist, revoked>>
          ELSE IF \E u \in db_user, p \in posts : p.created_by_user_id = u.id
          THEN /\ resp' = [op |-> "erase_db_user", status |-> "ServerError"]
               /\ UNCHANGED <<users, token_blacklist, revoked>>
          ELSE /\ users' = users \ db_user
               /\ token_blacklist' = b.rows
               /\ revoked' = IF b.status = "ok" THEN revoked \cup {token} ELSE revoked
               /\ resp' = [op |-> "erase_db_user",
                           status |-> IF b.status = "ok" THEN "ok" ELSE "ServerError"]
       /\ UNCHANGED <<rlVars, concVars, sanVars, cacheVars, issued>>
       /\ UNCHANGED <<tiers, seq, rate_limits, rate_limit_seq, erased, nheavy>>

\* a request with an access token to an endpoint that depends on
\* get_current_superuser
SuperuserRequest(token, op, Body) ==
    LET current_user == get_current_user(token, token_blacklist, now)
    IN IF current_user.status # "ok"
       THEN /\ resp' = [op |-> op, status |-> "Unauthorized"]
            /\ UNCHANGED <<rlVars, concVars, sanVars, cacheVars, authVars>>
            /\ UNCHANGED <<users, tiers, seq, rate_limits, rate_limit_seq, erased,
                           nheavy>>
       ELSE get_current_superuser(current_user.user, op, Body)

\* what the requests below carry
UserCreates == {[username |-> alice, email |-> carol_mail, password |-> "pa"],
                [username |-> carol, email |-> carol_mail, password |-> "pb"],
                [username |-> carol, email |-> alice_mail, password |-> "pa"],
                [username |-> carol, email |-> carol_mail, password |-> "pa",
                 is_superuser |-> TRUE]}
UserBodies == {[username |-> carol], [username |-> alice], [tier_id |-> 1],
               [is_superuser |-> TRUE]}
IssuedTokens == {p[1] : p \in issued}

\* the requests below that may change a table are counted together
UserBudget ==
    nreq + Cardinality(issued) + Cardinality(token_blacklist)
        + (seq.user - InitSeq.user) < MaxUserRequests

NextUsers ==
    \/ \E n \in {alice, bob_mail, carol}, pw \in {"pa", "pb"} :
          UserBudget /\ login_for_access_token(n, pw)
    \/ \E user \in UserCreates : UserBudget /\ write_user(user)
    \/ \E cu \in CurrentUsers, u \in Usernames \cup {carol}, v \in UserBodies :
          UserBudget /\ patch_user(u, v, cu)
    \/ \E u \in Usernames \cup {carol}, t \in IssuedTokens : UserBudget /\ erase_user(u, t)
    \/ \E u \in Usernames \cup {carol}, t \in IssuedTokens :
          SuperuserRequest(t, "erase_db_user", UserBudget /\ erase_db_user(u, t))
    \/ \E u \in Usernames \cup {carol}, t \in IssuedTokens :
          SuperuserRequest(t, "patch_user_tier",
                           UserBudget /\ patch_user_tier(u, [tier_id |-> 1]))
    \/ \E t \in IssuedTokens : GetCurrentUser(t)
    \/ Tick

SpecUsers == Init /\ [][NextUsers]_vars

\* C28: get_current_user, called with an access token that /login has
\* issued, returns a user the token was issued to or raises Unauthorized,
\* whatever login, write_user, patch_user, erase_user and erase_db_user
\* requests came in between.
C28_TokenOfItsUser ==
    (/\ resp.op = "get_current_user"
     /\ resp.status = "ok"
     /\ resp.token \in IssuedTokens)
        => \E p \in issued : p[1] = resp.token /\ p[2] = resp.user.id

\* C29: a request that is not served behind get_current_superuser leaves
\* is_superuser and tier_id of every user as they were, and a user it
\* creates has is_superuser false and no tier.
C29_Step ==
    (resp'.op \notin {"patch_user_tier", "erase_db_user"})
        => \A v \in users' :
              \/ \E u \in users : /\ u.id = v.id
                                  /\ u.is_superuser = v.is_superuser
                                  /\ u.tier_id = v.tier_id
              \/ /\ \A u \in users : u.id # v.id
                 /\ ~v.is_superuser
                 /\ v.tier_id = NoTier

C29_NoSelfPromotion == [][C29_Step]_vars

\* a user who is no superuser was refused a body that names tier_id
C29_Witness ==
    /\ resp.op = "patch_user"
    /\ resp.status = "UnprocessableEntity"
    /\ \E u \in users : u.id = resp.current_user /\ ~u.is_superuser /\ ~u.is_deleted

\* a user created by POST /user, and a user who renamed themselves
C29_WitnessCreated ==
    /\ resp.op = "write_user"
    /\ resp.status = "created"
    /\ \E u \in users : u.id = seq.user /\ ~u.is_superuser /\ u.tier_id = NoTier

C29_WitnessUpdated ==
    /\ resp.op = "patch_user"
    /\ resp.status = "updated"
    /\ \E u \in users : u.id = resp.current_user /\ ~u.is_superuser
                        /\ u.username = carol

---------------------------------------------------------------------------
(* A read of a post and a write of the same post served at the same time.  *)
(* A request suspends at each round-trip: the reader between the lookup    *)
(* in the cache, the query of its body and the SET of the answer; the      *)
(* writer between the statements of its body and the DELETE of the keys.   *)
(* pc, call and result hold the position, the arguments and the answer of  *)
(* the request of the reader and of the writer.                            *)

\* the owner of each post, as the URL of the request names them
OwnPosts == {[username |-> alice, id |-> 1], [username |-> bob, id |-> 2]}

InitRace ==
    /\ InitLimiter
    /\ rule = [limit |-> 0, period |-> 1]
    /\ pc = [reader |-> "idle", writer |-> "idle"]
    /\ call = [reader |-> [username |-> <<>>, id |-> 0, op |-> "none"],
               writer |-> [username |-> <<>>, id |-> 0, op |-> "none"]]
    /\ result = [reader |-> [none |-> TRUE]]
    /\ InitPaths
    /\ InitDb

\* GET /{username}/post/{id} under @cache, one round-trip at a time
ReadPost ==
    LET c == call.reader
        key == cache_key(read_post_key_prefix, str(c.id), Kwargs(c.username, c.id))
        h == read_post_handler(c.username, c.id)
    IN /\ \/ /\ pc.reader = "idle"
             /\ nreq < MaxRequests
             /\ nreq' = nreq + 1
             /\ \E q \in OwnPosts :
                   call' = [call EXCEPT !.reader = [username |-> q.username,
                                                    id |-> q.id, op |-> "read_post"]]
             /\ pc' = [pc EXCEPT !.reader = "get"]
             /\ UNCHANGED <<result, resp, cache>>
          \/ /\ pc.reader = "get"
             /\ IF key \in DOMAIN cache
                THEN /\ resp' = [op |-> "read_post",
                                 request |-> [username |-> c.username, id |-> c.id],
                                 status |-> "ok",
                                 body |-> json_loads(cache[key].value),
                                 handler |-> FALSE, key |-> key, at |-> now]
                     /\ pc' = [pc EXCEPT !.reader = "idle"]
                ELSE /\ pc' = [pc EXCEPT !.reader = "handler"]
                     /\ UNCHANGED resp
             /\ UNCHANGED <<nreq, call, result, cache>>
          \/ /\ pc.reader = "handler"
             /\ IF h.status = "ok"
                THEN /\ result' = [result EXCEPT !.reader = h.body]
                     /\ pc' = [pc EXCEPT !.reader = "set"]
                     /\ UNCHANGED resp
                ELSE /\ resp' = [op |-> "read_post",
                                 request |-> [username |-> c.username, id |-> c.id],
                                 status |-> h.status, body |-> h.body,
                                 handler |-> TRUE, key |-> key, at |-> now]
                     /\ pc' = [pc EXCEPT !.reader = "idle"]
                     /\ UNCHANGED result
             /\ UNCHANGED <<nreq, call, cache>>
          \/ /\ pc.reader = "set"
             /\ cache' = redis_set(cache, key, json_dumps(result.reader),
                                   DefaultExpiration, now)
             /\ resp' = [op |-> "read_post",
                         request |-> [username |-> c.username, id |-> c.id],
                         status |-> "ok", body |-> result.reader,
                         handler |-> TRUE, key |-> key, at |-> now]
             /\ pc' = [pc EXCEPT !.reader = "idle"]
             /\ UNCHANGED <<nreq, call, result>>
       /\ UNCHANGED <<rlVars, sanVars, authVars, rule, posts, stored>>
       /\ UNCHANGED <<users, tiers, seq, rate_limits, rate_limit_seq, erased, nheavy>>

\* PATCH and DELETE /{username}/post/{id} under @cache, sent by the owner
WritePost ==
    LET c == call.writer
        kwargs == Kwargs(c.username, c.id)
        current_user == CHOOSE u \in users : u.username = c.username
        h == IF c.op = "patch_post"
             THEN patch_post_handler(c.username, c.id, [text |-> TextY], current_user)
             ELSE erase_post_handler(c.username, c.id, current_user)
        keys == IF c.op = "patch_post"
                THEN {cache_key(patch_post_key_prefix, str(c.id), kwargs)}
                        \cup UNION {redis_scan(cache, format(p, kwargs))
                                       : p \in patch_post_patterns}
                ELSE {cache_key(erase_post_key_prefix, str(c.id), kwargs)}
                        \cup {cache_key(e.key_prefix, format(e.id, kwargs), kwargs)
                                 : e \in erase_post_extra}
    IN /\ \/ /\ pc.writer = "idle"
             /\ nreq < MaxRequests
             /\ nreq' = nreq + 1
             /\ \E q \in OwnPosts, op \in {"patch_post", "erase_post"} :
                   call' = [call EXCEPT !.writer = [username |-> q.username,
                                                    id |-> q.id, op |-> op]]
             /\ pc' = [pc EXCEPT !.writer = "handler"]
             /\ UNCHANGED <<resp, posts, cache>>
          \/ /\ pc.writer = "handler"
             /\ posts' = h.posts
             /\ IF h.status = "ok"
                THEN /\ pc' = [pc EXCEPT !.writer = "delete"]
                     /\ UNCHANGED resp
                ELSE /\ resp' = [op |-> c.op,
                                 request |-> [username |-> c.username, id |-> c.id,
                                              current_user |-> current_user.id],
                                 status |-> h.status, body |-> h.body,
                                 handler |-> TRUE, at |-> now]
                     /\ pc' = [pc EXCEPT !.writer = "idle"]
             /\ UNCHANGED <<nreq, call, cache>>
          \/ /\ pc.writer = "delete"
             /\ cache' = redis_delete(cache, keys)
             /\ resp' = [op |-> c.op,
                         request |-> [username |-> c.username, id |-> c.id,
                                      current_user |-> current_user.id],
                         status |-> "ok",
                         body |-> [message |-> IF c.op = "patch_post"
                                               THEN "Post updated" ELSE "Post deleted"],
                         handler |-> TRUE, at |-> now]
             /\ pc' = [pc EXCEPT !.writer = "idle"]
             /\ UNCHANGED <<nreq, call, posts>>
       /\ UNCHANGED <<rlVars, sanVars, authVars, rule, result, stored>>
       /\ UNCHANGED <<users, tiers, seq, rate_limits, rate_limit_seq, erased, nheavy>>

NextRace == ReadPost \/ WritePost

SpecRace == InitRace /\ [][NextRace]_vars

\* C30: when a read_post that missed the cache and a patch_post or
\* erase_post of the same post have both completed, in whatever order their
\* round-trips were served, the cache holds for the post only what its
\* body answers now, so no later read_post returns what was read before
\* the write.
C30_NoStalePayload ==
    (pc.reader = "idle" /\ pc.writer = "idle")
        => \A q \in OwnPosts :
              LET key == cache_key(read_post_key_prefix, str(q.id),
                                   Kwargs(q.username, q.id))
                  h == read_post_handler(q.username, q.id)
              IN key \in DOMAIN cache
                    => /\ h.status = "ok"
                       /\ json_loads(cache[key].value) = h.body

====
